---- MODULE Spec2Model ----
(***************************************************************************)
(* Regime-driven allocation engine and day-by-day backtest simulator of    *)
(* src/app.py.                                                             *)
(*                                                                         *)
(* Numbers.  The program computes in floats; the model computes in fixed   *)
(* point.  Weights, returns and the drawdown are in basis points           *)
(* (1.0 = 10000), the NAV is in currency units (initial_capital = 10000),  *)
(* VIX, Sahm, correlation, yield curve and momentum scores are in          *)
(* hundredths (VIX 14.0 = 1400, Sahm 0.35 = 35, score 0.03 = 3).  Every    *)
(* product is rounded down to the unit, once, where the code multiplies.   *)
(***************************************************************************)
EXTENDS Integers, Sequences, FiniteSets, TLC

\* ------------------------------------------------------------------------
\* Representation
\* ------------------------------------------------------------------------
ONE == 100 * 100                 \* the weight 1.0, the return 100%
None == 0 - 99999                \* Python's None for an optional number

Min(a, b) == IF a <= b THEN a ELSE b
Max(a, b) == IF a >= b THEN a ELSE b
Abs(a) == IF a >= 0 THEN a ELSE 0 - a

\* dict.get(k, 0) on a weight map
Get(m, k) == IF k \in DOMAIN m THEN m[k] ELSE 0

\* sum(m.values()) over the keys in ks
RECURSIVE SumOver(_, _)
SumOver(m, ks) ==
    IF ks = {} THEN 0
    ELSE LET k == CHOOSE x \in ks : TRUE IN m[k] + SumOver(m, ks \ {k})

SumValues(m) == SumOver(m, DOMAIN m)

\* ------------------------------------------------------------------------
\* Tuning constants (src/app.py lines 26-150)
\* ------------------------------------------------------------------------
VIX_BOOST_LO == 1400
VIX_PANIC == 2800
YIELD_CURVE_CUTOFF == -35
TARGET_VOL == 1400
VOL_LOOKBACK == 20
VOL_SCALAR_MAX == 18000
VOL_SCALAR_MIN == 4000
DRAWDOWN_STOP_LOSS == -1200
DRAWDOWN_REDUCE_RATIO == 4000
VIX_SMOOTH_START == 1800
VIX_SMOOTH_END == 3200
VIX_MAX_REDUCTION == 3500
SIGNAL_CONFIRM_DAYS == 2
REBALANCE_THRESHOLD == 600
STATE_TRANSITION_DAYS == 2
MOMENTUM_STRONG_THRESHOLD == 103
MOMENTUM_WEAK_THRESHOLD == 93
MOMENTUM_NEUTRAL_REDUCTION == 8
SAHM_EARLY_WARNING_LO == 35
SAHM_EARLY_WARNING_HI == 50
SAHM_REDUCTION_RATE == 40
YC_UNINVERT_REDUCTION == 15
VIX_MEAN_REVERSION_PEAK == 2300
VIX_MEAN_REVERSION_RATIO == 75
VIX_MEAN_REVERSION_BOOST == 1200
CORR_MID_THRESHOLD == 18
CORR_HIGH_THRESHOLD == 35
CORR_MAX_REALLOC == 1200
WEAK_BEAR_REDUCTION == 20
STRONG_BEAR_REDUCTION == 55
MARKET_BREADTH_LOW == 25
MARKET_BREADTH_MID == 45
BREADTH_LOW_REDUCTION == 10
BREADTH_MID_REDUCTION == 3
EXTREME_CONFIRM_DAYS == 1
VIX_GROWTH_TO_VALUE_START == 2200
VIX_GROWTH_TO_VALUE_FULL == 3500
GROWTH_TO_VALUE_MAX_SHIFT == 2000
TREND_STRONG_BULL == 110
TREND_MILD_BULL == 103
TREND_MILD_BEAR == 97
BULL_IWY_BOOST == 1000
BEAR_WTMF_BOOST == 1500
VALUE_OUTPERFORM_THRESHOLD == 3
VALUE_UNDERPERFORM_THRESHOLD == -5
VALUE_ROTATION_AMOUNT == 800

\* (lo, hi, IWY weight, WTMF weight) per VIX tier of CAUTIOUS_VOL
CAUTIOUS_VOL_VIX_TIERS ==
    [tier1 |-> <<2000, 2500, 4000, 2000>>,
     tier2 |-> <<2500, 3000, 3000, 3000>>,
     tier3 |-> <<3000, 4000, 2000, 4000>>,
     tier4 |-> <<4000, 99900, 1000, 5000>>]

\* (drawdown threshold, retained position ratio), in list order
STOP_LOSS_RECOVERY_STAGES ==
    << <<-1200, 5500>>, <<-800, 7500>>, <<-500, 9000>>, <<-200, 10000>> >>

Regimes == {"INFLATION_SHOCK", "DEFLATION_RECESSION", "EXTREME_ACCUMULATION",
            "CAUTIOUS_TREND", "CAUTIOUS_VOL", "NEUTRAL"}

\* The keys of every map base_allocation returns
Assets == {"IWY", "WTMF", "LVHI", "G3B.SI", "MBH.SI", "GSD.SI", "SRT.SI", "AJBU.SI"}

WeightMap(iwy, wtmf, lvhi, g3b, mbh, gsd, srt, ajbu) ==
    [a \in Assets |->
        CASE a = "IWY" -> iwy
          [] a = "WTMF" -> wtmf
          [] a = "LVHI" -> lvhi
          [] a = "G3B.SI" -> g3b
          [] a = "MBH.SI" -> mbh
          [] a = "GSD.SI" -> gsd
          [] a = "SRT.SI" -> srt
          [] a = "AJBU.SI" -> ajbu]

\* ------------------------------------------------------------------------
\* Allocation engine: base table
\* ------------------------------------------------------------------------
CautiousVolTier(vix) ==
    LET t1 == CAUTIOUS_VOL_VIX_TIERS.tier1
        t2 == CAUTIOUS_VOL_VIX_TIERS.tier2
        t3 == CAUTIOUS_VOL_VIX_TIERS.tier3
        t4 == CAUTIOUS_VOL_VIX_TIERS.tier4
    IN  IF vix = None THEN <<4000, 2000, 1500>>
        ELSE IF t1[1] <= vix /\ vix < t1[2] THEN <<t1[3], t1[4], 1500>>
        ELSE IF t2[1] <= vix /\ vix < t2[2] THEN <<t2[3], t2[4], 1500>>
        ELSE IF t3[1] <= vix /\ vix < t3[2] THEN <<t3[3], t3[4], 1200>>
        ELSE IF vix >= t4[1] THEN <<t4[3], t4[4], 1000>>
        ELSE <<4000, 2000, 1500>>

base_allocation(s, value_regime, vix) ==
    IF s = "INFLATION_SHOCK" THEN WeightMap(0, 5000, 1500, 0, 0, 2500, 0, 1000)
    ELSE IF s = "DEFLATION_RECESSION" THEN WeightMap(500, 2000, 500, 0, 4000, 2500, 0, 500)
    ELSE IF s = "EXTREME_ACCUMULATION" THEN WeightMap(8500, 0, 0, 500, 0, 0, 500, 500)
    ELSE IF s = "CAUTIOUS_TREND" THEN
        IF value_regime THEN WeightMap(800, 1800, 3200, 800, 1000, 800, 500, 400)
        ELSE WeightMap(1500, 2000, 2500, 800, 1000, 800, 500, 400)
    ELSE IF s = "CAUTIOUS_VOL" THEN
        LET t == CautiousVolTier(vix)
        IN  WeightMap(t[1], t[2], t[3], 300, 500, 500, 500, 500)
    ELSE \* NEUTRAL, and every other value of s
        IF value_regime THEN WeightMap(5500, 0, 2000, 500, 500, 300, 700, 700)
        ELSE WeightMap(6800, 0, 500, 500, 500, 300, 700, 700)

\* ------------------------------------------------------------------------
\* Allocation engine: tilt passes.  Each takes the weight map and returns
\* the map the Python pass leaves behind.
\* ------------------------------------------------------------------------
\* asset_trends.get(asset, False)
TrendGet(asset_trends, asset) ==
    asset \in DOMAIN asset_trends /\ asset_trends[asset]

\* momentum_scores.get(ticker)
ScoreGet(momentum_scores, ticker) ==
    IF ticker \in DOMAIN momentum_scores THEN momentum_scores[ticker] ELSE None

\* Fault variant of apply_vix_adjustments: the high-VIX shift credits the
\* value sleeve and forgets the 30% that belongs to WTMF
VixAdjustmentsDroppingShare(targets, state, vix) ==
    IF vix = None THEN targets
    ELSE IF state = "NEUTRAL" /\ vix > VIX_GROWTH_TO_VALUE_START THEN
        LET ramp == (GROWTH_TO_VALUE_MAX_SHIFT * (vix - VIX_GROWTH_TO_VALUE_START))
                        \div (VIX_GROWTH_TO_VALUE_FULL - VIX_GROWTH_TO_VALUE_START)
            shift_amt == Min(targets["IWY"], Min(ramp, GROWTH_TO_VALUE_MAX_SHIFT))
        IN  [targets EXCEPT !["IWY"] = @ - shift_amt,
                             !["LVHI"] = @ + (shift_amt * 7) \div 10]
    ELSE targets

apply_vix_adjustments(targets, state, vix) ==
    IF vix = None THEN targets
    ELSE IF state = "NEUTRAL" THEN
        IF vix < VIX_BOOST_LO THEN
            LET wtmf_amt == targets["WTMF"]
                mbh_amt == (targets["MBH.SI"] * 8) \div 10
                gsd_amt == (targets["GSD.SI"] * 5) \div 10
                total_boost == wtmf_amt + mbh_amt + gsd_amt
            IN  [targets EXCEPT !["WTMF"] = 0,
                                !["MBH.SI"] = @ - mbh_amt,
                                !["GSD.SI"] = @ - gsd_amt,
                                !["IWY"] = @ + total_boost]
        ELSE IF vix > VIX_GROWTH_TO_VALUE_START THEN
            LET ramp == (GROWTH_TO_VALUE_MAX_SHIFT * (vix - VIX_GROWTH_TO_VALUE_START))
                            \div (VIX_GROWTH_TO_VALUE_FULL - VIX_GROWTH_TO_VALUE_START)
                shift_amt == Min(targets["IWY"], Min(ramp, GROWTH_TO_VALUE_MAX_SHIFT))
            IN  IF shift_amt > 0
                THEN [targets EXCEPT !["IWY"] = @ - shift_amt,
                                     !["LVHI"] = @ + (shift_amt * 7) \div 10,
                                     !["WTMF"] = @ + (shift_amt * 3) \div 10]
                ELSE targets
        ELSE targets
    ELSE targets

apply_yield_curve_guard(targets, state, yield_curve) ==
    IF state \notin {"DEFLATION_RECESSION", "CAUTIOUS_TREND"} THEN targets
    ELSE IF yield_curve = None \/ yield_curve >= YIELD_CURVE_CUTOFF THEN targets
    ELSE IF targets["MBH.SI"] > 0 THEN
        LET move_amt == (targets["MBH.SI"] * 7) \div 10
        IN  [targets EXCEPT !["MBH.SI"] = @ - move_amt, !["WTMF"] = @ + move_amt]
    ELSE targets

assets_to_check == <<"G3B.SI", "LVHI", "MBH.SI", "GSD.SI", "SRT.SI", "AJBU.SI">>

RECURSIVE TrendFilterLoop(_, _, _, _)
TrendFilterLoop(targets, state, asset_trends, i) ==
    IF i > Len(assets_to_check) THEN targets
    ELSE
        LET asset == assets_to_check[i]
            sink == IF state = "NEUTRAL" /\ ~TrendGet(asset_trends, "IWY")
                    THEN "IWY" ELSE "WTMF"
            next == IF targets[asset] > 0 /\ TrendGet(asset_trends, asset)
                    THEN [targets EXCEPT ![asset] = 0, ![sink] = @ + targets[asset]]
                    ELSE targets
        IN  TrendFilterLoop(next, state, asset_trends, i + 1)

apply_trend_filters(targets, state, asset_trends) ==
    IF state = "EXTREME_ACCUMULATION" THEN targets
    ELSE TrendFilterLoop(targets, state, asset_trends, 1)

\* Fault variant of apply_iwy_safety_valve: the cut is taken in every regime,
\* the accumulation regime included
IwySafetyValveUnguarded(targets, state, asset_trends, vix) ==
    IF targets["IWY"] <= 0 THEN targets
    ELSE IF TrendGet(asset_trends, "IWY") THEN
        LET severity == IF vix # None /\ vix > VIX_PANIC THEN 8 ELSE 5
            cut_amount == (targets["IWY"] * severity) \div 10
        IN  [targets EXCEPT !["IWY"] = @ - cut_amount, !["WTMF"] = @ + cut_amount]
    ELSE targets

apply_iwy_safety_valve(targets, state, asset_trends, vix) ==
    IF state = "EXTREME_ACCUMULATION" \/ targets["IWY"] <= 0 THEN targets
    ELSE IF TrendGet(asset_trends, "IWY") THEN
        LET severity == IF vix # None /\ vix > VIX_PANIC THEN 8 ELSE 5
            cut_amount == (targets["IWY"] * severity) \div 10
        IN  [targets EXCEPT !["IWY"] = @ - cut_amount, !["WTMF"] = @ + cut_amount]
    ELSE targets

apply_gold_filter(targets, gold_bear) ==
    IF gold_bear /\ targets["GSD.SI"] > 0 THEN
        LET cut_amount == targets["GSD.SI"]
        IN  [targets EXCEPT !["GSD.SI"] = @ - cut_amount, !["WTMF"] = @ + cut_amount]
    ELSE targets

apply_momentum_intensity(targets, state, momentum_scores) ==
    IF state = "EXTREME_ACCUMULATION" \/ DOMAIN momentum_scores = {} THEN targets
    ELSE
        LET iwy_score == ScoreGet(momentum_scores, "IWY")
        IN  IF iwy_score # None /\ targets["IWY"] > 0 THEN
                IF iwy_score < MOMENTUM_WEAK_THRESHOLD - 100 THEN targets
                ELSE IF iwy_score < MOMENTUM_STRONG_THRESHOLD - 100 THEN
                    LET reduction == (targets["IWY"] * MOMENTUM_NEUTRAL_REDUCTION) \div 100
                    IN  [targets EXCEPT !["IWY"] = @ - reduction, !["WTMF"] = @ + reduction]
                ELSE targets
            ELSE targets

apply_sahm_early_warning(targets, state, sahm) ==
    IF state \notin {"NEUTRAL", "CAUTIOUS_VOL"} \/ sahm = None THEN targets
    ELSE IF SAHM_EARLY_WARNING_LO <= sahm /\ sahm < SAHM_EARLY_WARNING_HI THEN
        LET iwy_current == targets["IWY"]
            move_amt == (iwy_current * (sahm - SAHM_EARLY_WARNING_LO) * SAHM_REDUCTION_RATE)
                            \div ((SAHM_EARLY_WARNING_HI - SAHM_EARLY_WARNING_LO) * 100)
        IN  IF iwy_current > 0
            THEN [targets EXCEPT !["IWY"] = iwy_current - move_amt,
                                 !["WTMF"] = @ + move_amt]
            ELSE targets
    ELSE targets

apply_yield_curve_uninvert_protection(targets, state, yield_curve, yc_recently_inverted) ==
    IF state \notin {"NEUTRAL", "CAUTIOUS_VOL"} THEN targets
    ELSE IF yield_curve # None /\ yield_curve > 0 /\ yc_recently_inverted THEN
        LET iwy_current == targets["IWY"]
            move_amt == (iwy_current * YC_UNINVERT_REDUCTION) \div 100
        IN  IF iwy_current > 0
            THEN [targets EXCEPT !["IWY"] = iwy_current - move_amt,
                                 !["MBH.SI"] = @ + (move_amt * 5) \div 10,
                                 !["WTMF"] = @ + (move_amt * 5) \div 10]
            ELSE targets
    ELSE targets

apply_vix_mean_reversion(targets, state, vix, vix_recent_peak) ==
    IF state \notin {"NEUTRAL", "CAUTIOUS_VOL"} \/ vix = None \/ vix_recent_peak = None
    THEN targets
    ELSE IF vix_recent_peak >= VIX_MEAN_REVERSION_PEAK
            /\ vix * 100 < vix_recent_peak * VIX_MEAN_REVERSION_RATIO THEN
        LET wtmf_current == targets["WTMF"]
        IN  IF wtmf_current > VIX_MEAN_REVERSION_BOOST
            THEN [targets EXCEPT !["WTMF"] = wtmf_current - VIX_MEAN_REVERSION_BOOST,
                                 !["IWY"] = @ + VIX_MEAN_REVERSION_BOOST]
            ELSE targets
    ELSE targets

apply_correlation_adjustment(targets, state, corr) ==
    IF state \notin {"NEUTRAL", "CAUTIOUS_VOL", "CAUTIOUS_TREND"} \/ corr = None THEN targets
    ELSE IF corr > CORR_MID_THRESHOLD THEN
        LET ramp == (CORR_MAX_REALLOC * (corr - CORR_MID_THRESHOLD))
                        \div (CORR_HIGH_THRESHOLD - CORR_MID_THRESHOLD)
            realloc == Min(ramp, CORR_MAX_REALLOC)
            mbh_current == targets["MBH.SI"]
        IN  IF mbh_current > realloc
            THEN [targets EXCEPT !["MBH.SI"] = mbh_current - realloc,
                                 !["WTMF"] = @ + (realloc * 7) \div 10,
                                 !["GSD.SI"] = @ + (realloc * 3) \div 10]
            ELSE targets
    ELSE targets

\* dual_ma_signals is an ordered dict: a sequence of <<ticker, signal>>
RECURSIVE DualMaLoop(_, _, _)
DualMaLoop(targets, dual_ma_signals, i) ==
    IF i > Len(dual_ma_signals) THEN targets
    ELSE
        LET asset == dual_ma_signals[i][1]
            signal == dual_ma_signals[i][2]
            weight == Get(targets, asset)
            pct == IF signal = "STRONG_BEAR" THEN STRONG_BEAR_REDUCTION
                   ELSE IF signal = "WEAK_BEAR" THEN WEAK_BEAR_REDUCTION ELSE 0
            cut_amount == (weight * pct) \div 100
            lowered == [targets EXCEPT ![asset] = weight - cut_amount]
            next == IF asset \notin DOMAIN targets \/ weight <= 0 \/ pct = 0
                    THEN targets
                    ELSE [lowered EXCEPT !["WTMF"] = @ + cut_amount]
        IN  DualMaLoop(next, dual_ma_signals, i + 1)

apply_dual_ma_trend_filter(targets, state, dual_ma_signals) ==
    IF state = "EXTREME_ACCUMULATION" \/ dual_ma_signals = <<>> THEN targets
    ELSE DualMaLoop(targets, dual_ma_signals, 1)

apply_market_breadth_adjustment(targets, state, breadth_score) ==
    IF state = "EXTREME_ACCUMULATION" \/ breadth_score = None THEN targets
    ELSE
        LET reduction == IF breadth_score < MARKET_BREADTH_LOW THEN BREADTH_LOW_REDUCTION
                         ELSE IF breadth_score < MARKET_BREADTH_MID THEN BREADTH_MID_REDUCTION
                         ELSE 0
            cut_iwy == IF targets["IWY"] > 0 THEN (targets["IWY"] * reduction) \div 100 ELSE 0
            cut_g3b == IF targets["G3B.SI"] > 0 THEN (targets["G3B.SI"] * reduction) \div 100 ELSE 0
            total_cut == cut_iwy + cut_g3b
        IN  IF reduction > 0
            THEN [targets EXCEPT !["IWY"] = @ - cut_iwy,
                                 !["G3B.SI"] = @ - cut_g3b,
                                 !["WTMF"] = IF total_cut > 0 THEN @ + total_cut ELSE @]
            ELSE targets

apply_trend_boost(targets, state, momentum_scores, vix) ==
    IF state \notin {"NEUTRAL", "CAUTIOUS_VOL"} \/ DOMAIN momentum_scores = {} \/ vix = None
    THEN targets
    ELSE
        LET iwy_score == ScoreGet(momentum_scores, "IWY")
            price_vs_ma == iwy_score + 100
        IN  IF iwy_score = None THEN targets
            ELSE IF price_vs_ma >= TREND_STRONG_BULL THEN
                IF vix < 1800 THEN
                    LET boost_from_wtmf == targets["WTMF"]
                        boost_from_lvhi == (targets["LVHI"] * 3) \div 10
                        boost_from_mbh == (targets["MBH.SI"] * 5) \div 10
                        total_boost == boost_from_wtmf + boost_from_lvhi + boost_from_mbh
                    IN  [targets EXCEPT !["WTMF"] = 0,
                                        !["LVHI"] = @ - boost_from_lvhi,
                                        !["MBH.SI"] = @ - boost_from_mbh,
                                        !["IWY"] = @ + total_boost]
                ELSE targets
            ELSE IF price_vs_ma >= TREND_MILD_BULL THEN
                LET boost_amt == Min(targets["WTMF"], BULL_IWY_BOOST)
                IN  IF boost_amt > 0
                    THEN [targets EXCEPT !["WTMF"] = @ - boost_amt, !["IWY"] = @ + boost_amt]
                    ELSE targets
            ELSE IF price_vs_ma < TREND_MILD_BEAR THEN
                LET shift_amt == Min(targets["IWY"], (BEAR_WTMF_BOOST * 6) \div 10)
                IN  IF shift_amt > 0
                    THEN [targets EXCEPT !["IWY"] = @ - shift_amt,
                                         !["WTMF"] = @ + (shift_amt * 7) \div 10,
                                         !["LVHI"] = @ + (shift_amt * 3) \div 10]
                    ELSE targets
            ELSE targets

apply_value_rotation(targets, state, momentum_scores) ==
    IF state \notin {"NEUTRAL", "CAUTIOUS_VOL"} \/ DOMAIN momentum_scores = {} THEN targets
    ELSE
        LET iwy_score == ScoreGet(momentum_scores, "IWY")
            lvhi_score == ScoreGet(momentum_scores, "LVHI")
            relative_strength == lvhi_score - iwy_score
        IN  IF iwy_score = None \/ lvhi_score = None THEN targets
            ELSE IF relative_strength > VALUE_OUTPERFORM_THRESHOLD THEN
                LET shift_amt == Min((targets["IWY"] * 3) \div 10, VALUE_ROTATION_AMOUNT)
                IN  IF shift_amt > 0
                    THEN [targets EXCEPT !["IWY"] = @ - shift_amt, !["LVHI"] = @ + shift_amt]
                    ELSE targets
            ELSE IF relative_strength < VALUE_UNDERPERFORM_THRESHOLD THEN
                LET shift_amt == Min((targets["LVHI"] * 5) \div 10, VALUE_ROTATION_AMOUNT)
                IN  IF shift_amt > 0
                    THEN [targets EXCEPT !["LVHI"] = @ - shift_amt, !["IWY"] = @ + shift_amt]
                    ELSE targets
            ELSE targets

\* The cascade, in the order get_target_percentages runs it
get_target_percentages(s, gold_bear, value_regime, asset_trends, vix, yield_curve, sahm, corr, momentum_scores, yc_recently_inverted, vix_recent_peak, dual_ma_signals, breadth_score) ==
    LET t0 == base_allocation(s, value_regime, vix)
        t1 == apply_vix_adjustments(t0, s, vix)
        t2 == apply_yield_curve_guard(t1, s, yield_curve)
        t3 == IF dual_ma_signals # <<>>
              THEN apply_dual_ma_trend_filter(t2, s, dual_ma_signals)
              ELSE apply_trend_filters(t2, s, asset_trends)
        t4 == apply_iwy_safety_valve(t3, s, asset_trends, vix)
        t5 == apply_gold_filter(t4, gold_bear)
        t6 == apply_momentum_intensity(t5, s, momentum_scores)
        t7 == apply_sahm_early_warning(t6, s, sahm)
        t8 == apply_yield_curve_uninvert_protection(t7, s, yield_curve, yc_recently_inverted)
        t9 == apply_correlation_adjustment(t8, s, corr)
        t10 == apply_vix_mean_reversion(t9, s, vix, vix_recent_peak)
        t11 == apply_market_breadth_adjustment(t10, s, breadth_score)
        t12 == apply_trend_boost(t11, s, momentum_scores, vix)
    IN  apply_value_rotation(t12, s, momentum_scores)

\* ------------------------------------------------------------------------
\* Regime classifier
\* ------------------------------------------------------------------------
DefaultParams ==
    [sahm_threshold |-> 50, rate_shock_threshold |-> 20, corr_threshold |-> 30,
     vix_panic |-> 3200, vix_recession |-> 3500, vix_elevated |-> 2000]

\* Fault variant of determine_macro_state: no final else, so a row that
\* matches no rule gets no regime
ClassifierWithoutDefault(row, params) ==
    LET is_rec == row.Sahm >= params.sahm_threshold
        is_shock == row.RateShock > params.rate_shock_threshold
        is_c_broken == row.Corr > params.corr_threshold
        is_f == row.VIX > params.vix_panic
        is_down == row.Trend_Bear
        is_vol_elevated == row.VIX > params.vix_elevated
    IN  IF is_shock \/ (is_rec /\ is_c_broken) THEN "INFLATION_SHOCK"
        ELSE IF is_rec \/ (is_down /\ row.VIX > params.vix_recession) THEN "DEFLATION_RECESSION"
        ELSE IF is_f /\ ~is_shock /\ ~is_rec THEN "EXTREME_ACCUMULATION"
        ELSE IF is_down THEN "CAUTIOUS_TREND"
        ELSE IF is_vol_elevated THEN "CAUTIOUS_VOL"
        ELSE "None"

\* Fault variant of determine_macro_state: the volatility rule is tested
\* before the trend rule
ClassifierVolatilityFirst(row, params) ==
    LET is_rec == row.Sahm >= params.sahm_threshold
        is_shock == row.RateShock > params.rate_shock_threshold
        is_c_broken == row.Corr > params.corr_threshold
        is_f == row.VIX > params.vix_panic
        is_down == row.Trend_Bear
        is_vol_elevated == row.VIX > params.vix_elevated
    IN  IF is_shock \/ (is_rec /\ is_c_broken) THEN "INFLATION_SHOCK"
        ELSE IF is_rec \/ (is_down /\ row.VIX > params.vix_recession) THEN "DEFLATION_RECESSION"
        ELSE IF is_f /\ ~is_shock /\ ~is_rec THEN "EXTREME_ACCUMULATION"
        ELSE IF is_vol_elevated THEN "CAUTIOUS_VOL"
        ELSE IF is_down THEN "CAUTIOUS_TREND"
        ELSE "NEUTRAL"

determine_macro_state(row, params) ==
    LET is_rec == row.Sahm >= params.sahm_threshold
        is_shock == row.RateShock > params.rate_shock_threshold
        is_c_broken == row.Corr > params.corr_threshold
        is_f == row.VIX > params.vix_panic
        is_down == row.Trend_Bear
        is_vol_elevated == row.VIX > params.vix_elevated
    IN  IF is_shock \/ (is_rec /\ is_c_broken) THEN "INFLATION_SHOCK"
        ELSE IF is_rec \/ (is_down /\ row.VIX > params.vix_recession) THEN "DEFLATION_RECESSION"
        ELSE IF is_f /\ ~is_shock /\ ~is_rec THEN "EXTREME_ACCUMULATION"
        ELSE IF is_down THEN "CAUTIOUS_TREND"
        ELSE IF is_vol_elevated THEN "CAUTIOUS_VOL"
        ELSE "NEUTRAL"

\* A row of df_hist with its State column (get_historical_macro_data)
WithState(features) ==
    [Sahm |-> features.Sahm, RateShock |-> features.RateShock, Corr |-> features.Corr,
     VIX |-> features.VIX, Trend_Bear |-> features.Trend_Bear,
     YieldCurve |-> features.YieldCurve, Gold_Bear |-> features.Gold_Bear,
     Value_Regime |-> features.Value_Regime,
     State |-> determine_macro_state(features, DefaultParams)]

\* ------------------------------------------------------------------------
\* Backtest simulator: calendar and price columns
\* ------------------------------------------------------------------------
\* A date is its number of days since Monday 2004-11-15.  The k-th date of
\* the index is the k-th weekday on or after the first one.
GOLD_ETF_START == 3              \* pd.Timestamp('2004-11-18'), a Thursday

Weekday(date) == date % 7
\* date.month, for dates up to 2005-01-31
Month(date) == IF date < 16 THEN 11 ELSE IF date < 47 THEN 12 ELSE 1

DateAt(first_date, k) ==
    first_date + (k - 1) + 2 * ((Weekday(first_date) + k - 1) \div 5)

NoTargets == [a \in {} |-> 0]       \* the empty dict, and None for a dict

ProxyColumns == {"^GSPC", "^NDX", "TLT", "GLD", "VUSTX", "GC=F"}
EtfColumns == Assets \cup {"TLT", "SPY"}
Tickers == EtfColumns \cup ProxyColumns

\* price_data.columns
Columns(use_proxies) == IF use_proxies THEN ProxyColumns ELSE EtfColumns

is_rebalance_day(date, freq, prev_date) ==
    IF freq = "Daily" THEN TRUE
    ELSE IF freq = "Weekly" THEN Weekday(date) = 0
    ELSE IF freq = "Monthly" THEN
        IF prev_date = None THEN TRUE ELSE Month(date) # Month(prev_date)
    ELSE IF freq = "Quarterly" THEN
        IF prev_date = None THEN TRUE
        ELSE (Month(date) - 1) \div 3 # (Month(prev_date) - 1) \div 3
    ELSE TRUE

map_target_to_asset(target_ticker, current_date, use_proxies) ==
    IF ~use_proxies THEN target_ticker
    ELSE IF target_ticker \in {"IWY", "G3B.SI", "LVHI", "SRT.SI", "AJBU.SI", "SPY"} THEN
        IF "^NDX" \in Columns(use_proxies) /\ target_ticker = "IWY" THEN "^NDX"
        ELSE IF "^GSPC" \in Columns(use_proxies) THEN "^GSPC" ELSE target_ticker
    ELSE IF target_ticker \in {"TLT", "MBH.SI"} THEN
        IF "VUSTX" \in Columns(use_proxies) THEN "VUSTX" ELSE "TLT"
    ELSE IF target_ticker = "GSD.SI" THEN
        IF current_date < GOLD_ETF_START /\ "GC=F" \in Columns(use_proxies)
        THEN "GC=F" ELSE "GLD"
    ELSE IF target_ticker = "WTMF" THEN "CASH"
    ELSE target_ticker

\* ------------------------------------------------------------------------
\* Backtest simulator: the inputs of one run.
\*   data.df_states[k]   the feature row of the k-th date
\*   data.momentum[k]    (price - ma) / ma per column, None while ma is NaN
\*   data.returns_df[k]  price_data.pct_change().fillna(0) per column
\* trend_bear_all is price < ma, that is, a negative momentum score.
\* ------------------------------------------------------------------------
trend_bear_all(data, k, ticker) ==
    data.momentum[k][ticker] # None /\ data.momentum[k][ticker] < 0

SetMax(S) == CHOOSE x \in S : \A y \in S : y <= x
SetMin(S) == CHOOSE x \in S : \A y \in S : x <= y

\* Fault variant of the loop head: the decision reads the row of the date itself
LagToday(st, data, k) ==
    [raw_state |-> data.df_states[k].State, gb |-> data.df_states[k].Gold_Bear,
     vr |-> data.df_states[k].Value_Regime, decision_date |-> k]

\* T-1 information for the decision of the k-th date (the loop head)
LagDecision(st, data, k) ==
    LET row == data.df_states[k]
    IN  IF st.prev_row_state = "None"
        THEN [raw_state |-> row.State, gb |-> row.Gold_Bear, vr |-> row.Value_Regime,
              decision_date |-> k]
        ELSE [raw_state |-> st.prev_row_state, gb |-> st.prev_row_gb,
              vr |-> st.prev_row_vr, decision_date |-> st.prev_row_date]

\* Fault variant of the confirmation delay: the required length is tested on
\* the first observation of a new regime as well
ConfirmSignalEager(st, raw_state) ==
    IF st.confirmed_state = "None" THEN
        [st EXCEPT !.confirmed_state = raw_state, !.pending_state = "None",
                   !.pending_state_days = 0]
    ELSE IF raw_state # st.confirmed_state THEN
        LET days == IF st.pending_state = raw_state THEN st.pending_state_days + 1 ELSE 1
            required_confirm_days ==
                IF raw_state = "EXTREME_ACCUMULATION"
                THEN EXTREME_CONFIRM_DAYS ELSE SIGNAL_CONFIRM_DAYS
        IN  IF days >= required_confirm_days THEN
                [st EXCEPT !.confirmed_state = raw_state,
                           !.pending_state = "None",
                           !.pending_state_days = 0,
                           !.is_in_transition = TRUE,
                           !.transition_day = 0,
                           !.transition_from_weights = st.prev_targets]
            ELSE [st EXCEPT !.pending_state = raw_state, !.pending_state_days = days]
    ELSE [st EXCEPT !.pending_state = "None", !.pending_state_days = 0]

\* Fault variant of ConfirmSignal: a date on which the raw state is the
\* confirmed one leaves the pending candidate and its counter as they are
ConfirmSignalKeepingPending(st, raw_state) ==
    IF st.confirmed_state = "None" THEN
        [st EXCEPT !.confirmed_state = raw_state,
                   !.pending_state = "None",
                   !.pending_state_days = 0]
    ELSE IF raw_state # st.confirmed_state THEN
        LET required_confirm_days ==
                IF raw_state = "EXTREME_ACCUMULATION"
                THEN EXTREME_CONFIRM_DAYS ELSE SIGNAL_CONFIRM_DAYS
        IN  IF st.pending_state = raw_state THEN
                IF st.pending_state_days + 1 >= required_confirm_days THEN
                    [st EXCEPT !.confirmed_state = raw_state,
                               !.pending_state = "None",
                               !.pending_state_days = 0,
                               !.is_in_transition = TRUE,
                               !.transition_day = 0,
                               !.transition_from_weights = st.prev_targets]
                ELSE [st EXCEPT !.pending_state_days = @ + 1]
            ELSE [st EXCEPT !.pending_state = raw_state,
                            !.pending_state_days = 1]
    ELSE st

\* Signal confirmation delay
ConfirmSignal(st, raw_state) ==
    IF st.confirmed_state = "None" THEN
        [st EXCEPT !.confirmed_state = raw_state,
                   !.pending_state = "None",
                   !.pending_state_days = 0]
    ELSE IF raw_state # st.confirmed_state THEN
        LET required_confirm_days ==
                IF raw_state = "EXTREME_ACCUMULATION"
                THEN EXTREME_CONFIRM_DAYS ELSE SIGNAL_CONFIRM_DAYS
        IN  IF st.pending_state = raw_state THEN
                IF st.pending_state_days + 1 >= required_confirm_days THEN
                    [st EXCEPT !.confirmed_state = raw_state,
                               !.pending_state = "None",
                               !.pending_state_days = 0,
                               !.is_in_transition = TRUE,
                               !.transition_day = 0,
                               !.transition_from_weights = st.prev_targets]
                ELSE [st EXCEPT !.pending_state_days = @ + 1]
            ELSE [st EXCEPT !.pending_state = raw_state,
                            !.pending_state_days = 1]
    ELSE [st EXCEPT !.pending_state = "None", !.pending_state_days = 0]

\* daily_trends, looked up at the decision date
DailyTrends(data, use_proxies, trend_lookup_date) ==
    IF use_proxies THEN
        LET proxy_trend_bear == trend_bear_all(data, trend_lookup_date, "^GSPC")
            gold_proxy == IF DateAt(data.first_date, trend_lookup_date) < GOLD_ETF_START
                             /\ "GC=F" \in Columns(use_proxies)
                          THEN "GC=F" ELSE "GLD"
            bond_proxy == IF "VUSTX" \in Columns(use_proxies) THEN "VUSTX" ELSE "TLT"
            equity == {"IWY", "G3B.SI", "LVHI", "SRT.SI", "AJBU.SI"}
        IN  [t \in equity \cup {"GSD.SI", "MBH.SI"} |->
                IF t \in equity THEN proxy_trend_bear
                ELSE IF t = "GSD.SI" THEN trend_bear_all(data, trend_lookup_date, gold_proxy)
                ELSE trend_bear_all(data, trend_lookup_date, bond_proxy)]
    ELSE [t \in Columns(use_proxies) |-> trend_bear_all(data, trend_lookup_date, t)]

\* vix_val, yc_val, sahm_val, corr_val of the decision row
DecisionSignals(data, decision_date) ==
    LET decision_row == data.df_states[decision_date]
    IN  [vix_val |-> decision_row.VIX, yc_val |-> decision_row.YieldCurve,
         sahm_val |-> decision_row.Sahm, corr_val |-> decision_row.Corr]

\* momentum_scores of the decision date
MomentumScores(data, use_proxies, momentum_date) ==
    LET table == data.momentum[momentum_date]
        have == {t \in Columns(use_proxies) : table[t] # None}
        mapped == use_proxies /\ "^GSPC" \in have
    IN  [t \in (IF mapped THEN have \cup {"IWY"} ELSE have) |->
            IF mapped /\ t = "IWY" THEN table["^GSPC"] ELSE table[t]]

\* max VIX of the 60 rows up to the decision date
VixRecentPeak(data, decision_date) ==
    LET lookback_start == Max(0, (decision_date - 1) - 60)
    IN  SetMax({data.df_states[j].VIX : j \in (lookback_start + 1)..decision_date})

\* whether the curve was below -0.20 in the 252 rows up to the decision date
YcRecentlyInverted(data, decision_date) ==
    LET lookback_start == Max(0, (decision_date - 1) - 252)
    IN  SetMin({data.df_states[j].YieldCurve : j \in (lookback_start + 1)..decision_date}) < -20

\* VIX response smoothing, applied to the engine's targets
VixSmoothing(targets, s, vix_val) ==
    IF s = "NEUTRAL" /\ vix_val # None /\ vix_val > VIX_SMOOTH_START THEN
        LET smooth_reduction ==
                Min((VIX_MAX_REDUCTION * (vix_val - VIX_SMOOTH_START))
                        \div (VIX_SMOOTH_END - VIX_SMOOTH_START), VIX_MAX_REDUCTION)
            iwy_current == targets["IWY"]
            move_amt == (iwy_current * smooth_reduction) \div ONE
        IN  [targets EXCEPT !["IWY"] = iwy_current - move_amt, !["WTMF"] = @ + move_amt]
    ELSE targets

\* new_target_weights: the targets on the columns they are held in
MapTargets(targets, date, use_proxies) ==
    LET held == {t \in DOMAIN targets :
                    /\ map_target_to_asset(t, date, use_proxies) # "CASH"
                    /\ map_target_to_asset(t, date, use_proxies) \in Columns(use_proxies)}
        keys == {map_target_to_asset(t, date, use_proxies) : t \in held}
    IN  [a \in keys |->
            SumOver(targets, {t \in held : map_target_to_asset(t, date, use_proxies) = a})]

\* drifted_weights: yesterday's weights after yesterday's returns
DriftedWeights(prev_targets, prev_rets) ==
    IF DOMAIN prev_targets = {} THEN prev_targets
    ELSE
        LET drifted_values ==
                [t \in DOMAIN prev_targets |->
                    (prev_targets[t] * (ONE + Get(prev_rets, t))) \div ONE]
            prev_cash_w == Max(0, ONE - SumValues(prev_targets))
            total_drifted_val == SumValues(drifted_values) + prev_cash_w
        IN  IF total_drifted_val > 0
            THEN [t \in DOMAIN prev_targets |-> (drifted_values[t] * ONE) \div total_drifted_val]
            ELSE prev_targets

\* Transition smoothing: the blend and the counters after it
TransitionBlend(st, new_target_weights) ==
    IF st.is_in_transition /\ DOMAIN st.transition_from_weights # {} THEN
        LET transition_day == st.transition_day + 1
            p == Min(transition_day, STATE_TRANSITION_DAYS)
            all_assets == DOMAIN new_target_weights \cup DOMAIN st.transition_from_weights
            blended_weights ==
                [a \in all_assets |->
                    (Get(st.transition_from_weights, a) * (STATE_TRANSITION_DAYS - p))
                        \div STATE_TRANSITION_DAYS
                    + (Get(new_target_weights, a) * p) \div STATE_TRANSITION_DAYS]
            over == transition_day >= STATE_TRANSITION_DAYS
        IN  [new_target_weights |-> blended_weights,
             blended |-> TRUE,
             is_in_transition |-> ~over,
             transition_from_weights |-> IF over THEN NoTargets ELSE st.transition_from_weights,
             transition_day |-> IF over THEN 0 ELSE transition_day]
    ELSE [new_target_weights |-> new_target_weights,
          blended |-> FALSE,
          is_in_transition |-> st.is_in_transition,
          transition_from_weights |-> st.transition_from_weights,
          transition_day |-> st.transition_day]

\* Tolerance band
NeedsRebalanceByThreshold(drifted_weights, new_target_weights) ==
    /\ DOMAIN drifted_weights # {}
    /\ DOMAIN new_target_weights # {}
    /\ \E a \in DOMAIN new_target_weights \cup DOMAIN drifted_weights :
          Abs(Get(new_target_weights, a) - Get(drifted_weights, a)) > REBALANCE_THRESHOLD

\* Fault variant of ShouldActuallyRebalance: the tolerance band is ignored
RebalanceOnCadenceOnly(should_rebalance, needs_rebalance_by_threshold, prev_targets, is_in_transition) ==
    \/ should_rebalance
    \/ DOMAIN prev_targets = {}
    \/ is_in_transition

ShouldActuallyRebalance(should_rebalance, needs_rebalance_by_threshold, prev_targets, is_in_transition) ==
    \/ (should_rebalance /\ needs_rebalance_by_threshold)
    \/ DOMAIN prev_targets = {}
    \/ is_in_transition

\* Integer square root (np.std, np.sqrt)
RECURSIVE SqrtSearch(_, _, _)
SqrtSearch(n, lo, hi) ==
    IF lo >= hi THEN lo
    ELSE LET mid == (lo + hi + 1) \div 2
         IN  IF mid * mid <= n THEN SqrtSearch(n, mid, hi) ELSE SqrtSearch(n, lo, mid - 1)

ISqrt(n) == SqrtSearch(n, 0, Min(n, 4 * ONE))

RECURSIVE SeqSum(_)
SeqSum(q) == IF q = <<>> THEN 0 ELSE Head(q) + SeqSum(Tail(q))

\* np.std(window) * np.sqrt(252)
RealizedVol(window) ==
    LET n == Len(window)
        mean == SeqSum(window) \div n
        variance == SeqSum([j \in 1..n |-> (window[j] - mean) * (window[j] - mean)]) \div n
    IN  (ISqrt(variance) * 15875) \div 1000

\* Fault variant of VolTargetOn: vol_scalar is not clamped
VolTargetOnUnclamped(final_weights, window) ==
    IF window = <<>> THEN final_weights
    ELSE
        LET realized_vol == RealizedVol(window)
        IN  IF realized_vol > 0 /\ SumValues(final_weights) > 0 THEN
                LET vol_scalar == (TARGET_VOL * ONE) \div realized_vol
                    scaled_weights == [a \in DOMAIN final_weights |->
                                          (final_weights[a] * vol_scalar) \div ONE]
                    total_scaled == SumValues(scaled_weights)
                IN  IF total_scaled > ONE
                    THEN [a \in DOMAIN final_weights |-> (scaled_weights[a] * ONE) \div total_scaled]
                    ELSE scaled_weights
            ELSE final_weights

\* vol_history_for_calc[-VOL_LOOKBACK:] when it is long enough, else nothing
VolWindow(portfolio_returns_history) ==
    LET vol_history_for_calc ==
            IF Len(portfolio_returns_history) > 1
            THEN SubSeq(portfolio_returns_history, 1, Len(portfolio_returns_history) - 1)
            ELSE <<>>
        n == Len(vol_history_for_calc)
    IN  IF n >= VOL_LOOKBACK THEN SubSeq(vol_history_for_calc, n - VOL_LOOKBACK + 1, n)
        ELSE <<>>

\* The scaling of the weights by TARGET_VOL / realized_vol of the window
VolTargetOn(final_weights, window) ==
    IF window = <<>> THEN final_weights
    ELSE
        LET realized_vol == RealizedVol(window)
        IN  IF realized_vol > 0 /\ SumValues(final_weights) > 0 THEN
                LET vol_scalar == Max(VOL_SCALAR_MIN,
                                      Min((TARGET_VOL * ONE) \div realized_vol, VOL_SCALAR_MAX))
                    scaled_weights == [a \in DOMAIN final_weights |->
                                          (final_weights[a] * vol_scalar) \div ONE]
                    total_scaled == SumValues(scaled_weights)
                IN  IF total_scaled > ONE
                    THEN [a \in DOMAIN final_weights |-> (scaled_weights[a] * ONE) \div total_scaled]
                    ELSE scaled_weights
            ELSE final_weights

\* Volatility targeting on the returns up to yesterday
VolTarget(final_weights, portfolio_returns_history) ==
    VolTargetOn(final_weights, VolWindow(portfolio_returns_history))

\* current_drawdown = (current_val - peak_nav) / peak_nav, compared exactly
DrawdownBelow(current_val, peak_nav, threshold) ==
    peak_nav > 0 /\ (current_val - peak_nav) * ONE < threshold * peak_nav
DrawdownAbove(current_val, peak_nav, threshold) ==
    IF peak_nav > 0 THEN (current_val - peak_nav) * ONE > threshold * peak_nav
    ELSE 0 > threshold
current_drawdown(current_val, peak_nav) ==
    IF peak_nav > 0 THEN ((current_val - peak_nav) * ONE) \div peak_nav ELSE 0

\* for threshold, ratio in STOP_LOSS_RECOVERY_STAGES: if current_drawdown > threshold: ... break
RECURSIVE FirstStage(_, _, _)
FirstStage(j, current_val, peak_nav) ==
    IF j > Len(STOP_LOSS_RECOVERY_STAGES) THEN 0
    ELSE IF DrawdownAbove(current_val, peak_nav, STOP_LOSS_RECOVERY_STAGES[j][1]) THEN j
    ELSE FirstStage(j + 1, current_val, peak_nav)

\* in_stop_loss_mode after the trigger and recovery test
StopLossMode(in_stop_loss_mode, current_val, peak_nav) ==
    IF ~in_stop_loss_mode /\ DrawdownBelow(current_val, peak_nav, DRAWDOWN_STOP_LOSS) THEN TRUE
    ELSE IF in_stop_loss_mode THEN
        LET j == FirstStage(1, current_val, peak_nav)
        IN  IF j # 0 /\ STOP_LOSS_RECOVERY_STAGES[j][2] >= ONE THEN FALSE ELSE TRUE
    ELSE FALSE

\* current_recovery_ratio while in stop-loss mode
RecoveryRatio(current_val, peak_nav) ==
    LET j == FirstStage(1, current_val, peak_nav)
    IN  IF j = 0 THEN ONE - DRAWDOWN_REDUCE_RATIO ELSE STOP_LOSS_RECOVERY_STAGES[j][2]

StopLossWeights(final_weights, current_recovery_ratio) ==
    [a \in DOMAIN final_weights |->
        IF a \in {"WTMF", "GSD.SI"} THEN final_weights[a]
        ELSE (final_weights[a] * current_recovery_ratio) \div ONE]

\* daily_turnover
DailyTurnover(prev_targets, should_actually_rebalance, final_weights, drifted_weights) ==
    IF DOMAIN prev_targets = {} THEN SumValues(final_weights)
    ELSE IF should_actually_rebalance THEN
        LET all_assets == DOMAIN final_weights \cup DOMAIN drifted_weights
            diffs == [t \in all_assets |-> Abs(Get(final_weights, t) - Get(drifted_weights, t))]
            curr_cash_w == Max(0, ONE - SumValues(final_weights))
            prev_cash_w == IF DOMAIN drifted_weights # {}
                           THEN Max(0, ONE - SumValues(drifted_weights)) ELSE 0
        IN  (SumValues(diffs) + Abs(curr_cash_w - prev_cash_w)) \div 2
    ELSE 0

\* daily_ret before costs
WeightedReturn(final_weights, current_rets) ==
    SumValues([t \in DOMAIN final_weights |-> (final_weights[t] * Get(current_rets, t)) \div ONE])

\* ------------------------------------------------------------------------
\* Backtest simulator: the state of the loop and one iteration of it
\* ------------------------------------------------------------------------
\* The locals of run_dynamic_backtest before the first date.  i counts the
\* dates already simulated; dates are named by their position in the index.
InitialLoopState(initial_capital) ==
    [i |-> 0,
     portfolio_values |-> <<>>,
     current_val |-> initial_capital,
     history_records |-> <<>>,
     prev_targets |-> NoTargets,
     prev_rets |-> NoTargets,
     portfolio_returns_history |-> <<>>,
     peak_nav |-> initial_capital,
     in_stop_loss_mode |-> FALSE,
     pending_state |-> "None",
     pending_state_days |-> 0,
     confirmed_state |-> "None",
     transition_from_weights |-> NoTargets,
     transition_day |-> 0,
     is_in_transition |-> FALSE,
     prev_date |-> None,
     prev_row_state |-> "None",
     prev_row_gb |-> FALSE,
     prev_row_vr |-> FALSE,
     prev_row_date |-> None]

\* Fault variant of EntryState: the regime, transition, peak and stop-loss
\* state, the return history and the held weights of the call before are
\* taken over
EntryStateReusing(left_behind, initial_capital) ==
    IF left_behind = <<>> THEN InitialLoopState(initial_capital)
    ELSE [left_behind EXCEPT !.i = 0, !.portfolio_values = <<>>,
                             !.current_val = initial_capital, !.history_records = <<>>,
                             !.prev_date = None, !.prev_row_state = "None",
                             !.prev_row_gb = FALSE, !.prev_row_vr = FALSE,
                             !.prev_row_date = None]

\* The locals of run_dynamic_backtest when a call reaches its loop: assigned
\* anew, whatever the locals of an earlier call held
EntryState(left_behind, initial_capital) == InitialLoopState(initial_capital)

\* The body of the loop runs in five stages, each an operator over the locals
\* the stages before it have set.

\* get_target_percentages on the decision date's signals, then VIX smoothing
TargetsFrom(s, lag, sig, daily_trends, momentum_scores, yc_recently_inverted, vix_recent_peak) ==
    VixSmoothing(
        get_target_percentages(s, lag.gb, lag.vr, daily_trends, sig.vix_val, sig.yc_val,
                               sig.sahm_val, sig.corr_val, momentum_scores,
                               yc_recently_inverted, vix_recent_peak, <<>>, None),
        s, sig.vix_val)

\* Stage 1: confirmed regime, cadence, signals of the decision date, targets.
\* st is the state after ConfirmSignal.
Decide(st, data, cfg, lag) ==
    [lag |-> lag,
     confirmed |-> st,
     s |-> st.confirmed_state,
     should_rebalance |->
         is_rebalance_day(DateAt(data.first_date, st.i + 1), cfg.rebal_freq, st.prev_date),
     daily_trends |-> DailyTrends(data, cfg.use_proxies, lag.decision_date),
     signals |-> DecisionSignals(data, lag.decision_date),
     momentum_scores |-> MomentumScores(data, cfg.use_proxies, lag.decision_date),
     targets |->
         TargetsFrom(st.confirmed_state, lag,
                     DecisionSignals(data, lag.decision_date),
                     DailyTrends(data, cfg.use_proxies, lag.decision_date),
                     MomentumScores(data, cfg.use_proxies, lag.decision_date),
                     YcRecentlyInverted(data, lag.decision_date),
                     VixRecentPeak(data, lag.decision_date))]

\* Stage 2: proxy mapping, drift, transition blend, tolerance band, and the
\* weights the date starts from
ChooseWeights(d, drifted_weights, tb, should_actually_rebalance) ==
    [d |-> d,
     drifted_weights |-> drifted_weights,
     tb |-> tb,
     should_actually_rebalance |-> should_actually_rebalance,
     final_weights |->
         IF should_actually_rebalance THEN tb.new_target_weights
         ELSE IF DOMAIN drifted_weights # {} THEN drifted_weights
         ELSE tb.new_target_weights]

GateOn(d, drifted_weights, tb) ==
    ChooseWeights(d, drifted_weights, tb,
        ShouldActuallyRebalance(
            d.should_rebalance,
            NeedsRebalanceByThreshold(drifted_weights, tb.new_target_weights),
            d.confirmed.prev_targets, tb.is_in_transition))

Gate(d, date, use_proxies) ==
    GateOn(d, DriftedWeights(d.confirmed.prev_targets, d.confirmed.prev_rets),
           TransitionBlend(d.confirmed, MapTargets(d.targets, date, use_proxies)))

\* Stage 3: volatility targeting, then the stop-loss overlay
OverlayOn(g, scaled_weights, in_stop_loss_mode, current_recovery_ratio) ==
    [g |-> g,
     in_stop_loss_mode |-> in_stop_loss_mode,
     current_recovery_ratio |-> current_recovery_ratio,
     scaled_weights |-> scaled_weights,
     final_weights |->
         IF in_stop_loss_mode THEN StopLossWeights(scaled_weights, current_recovery_ratio)
         ELSE scaled_weights]

Overlay(g, st) ==
    OverlayOn(g, VolTarget(g.final_weights, st.portfolio_returns_history),
              StopLossMode(st.in_stop_loss_mode, st.current_val, st.peak_nav),
              RecoveryRatio(st.current_val, st.peak_nav))

\* Stage 4: turnover and trading cost
TradeAt(o, daily_turnover, transaction_cost_bps) ==
    [o |-> o,
     daily_turnover |-> daily_turnover,
     trading_cost |-> (daily_turnover * transaction_cost_bps) \div ONE]

Trade(o, st, cfg) ==
    TradeAt(o, DailyTurnover(st.prev_targets, o.g.should_actually_rebalance,
                             o.final_weights, o.g.drifted_weights),
            cfg.transaction_cost_bps)
\* Fault variant of UpdatePeak: the peak follows the value down as well
UpdatePeakFollowing(peak_nav, current_val) == current_val

\* The highest value so far, after the date's value is known
UpdatePeak(peak_nav, current_val) == IF current_val > peak_nav THEN current_val ELSE peak_nav

\* Stage 5: the history record, the day's return, and the locals carried to
\* the next date.  Each history record keeps, next to the columns the code
\* writes, the locals the decision was made from.
Book(st, date, row, current_rets, t, daily_ret, current_val) ==
    [i |-> st.i + 1,
     portfolio_values |-> Append(st.portfolio_values, current_val),
     current_val |-> current_val,
     history_records |->
         Append(st.history_records,
                [targets |-> t.o.g.d.targets,
                 Date |-> st.i + 1,
                 State |-> t.o.g.d.s,
                 RawState |-> t.o.g.d.lag.raw_state,
                 Turnover |-> t.daily_turnover,
                 TradingCost |-> t.trading_cost,
                 Rebalanced |-> t.o.g.should_actually_rebalance,
                 InStopLoss |-> t.o.in_stop_loss_mode,
                 Drawdown |-> current_drawdown(st.current_val, st.peak_nav),
                 InTransition |-> t.o.g.tb.is_in_transition,
                 decision_date |-> t.o.g.d.lag.decision_date,
                 gb |-> t.o.g.d.lag.gb,
                 vr |-> t.o.g.d.lag.vr,
                 signals |-> t.o.g.d.signals,
                 daily_trends |-> t.o.g.d.daily_trends,
                 momentum_scores |-> t.o.g.d.momentum_scores,
                 blended |-> t.o.g.tb.blended,
                 should_rebalance |-> t.o.g.d.should_rebalance,
                 current_recovery_ratio |-> t.o.current_recovery_ratio,
                 new_target_weights |-> t.o.g.tb.new_target_weights,
                 drifted_weights |-> t.o.g.drifted_weights,
                 gated_weights |-> t.o.g.final_weights,
                 scaled_weights |-> t.o.scaled_weights,
                 final_weights |-> t.o.final_weights]),
     prev_targets |-> t.o.final_weights,
     prev_rets |-> current_rets,
     portfolio_returns_history |-> Append(st.portfolio_returns_history, daily_ret),
     peak_nav |-> UpdatePeak(st.peak_nav, current_val),
     in_stop_loss_mode |-> t.o.in_stop_loss_mode,
     pending_state |-> t.o.g.d.confirmed.pending_state,
     pending_state_days |-> t.o.g.d.confirmed.pending_state_days,
     confirmed_state |-> t.o.g.d.s,
     transition_from_weights |-> t.o.g.tb.transition_from_weights,
     transition_day |-> t.o.g.tb.transition_day,
     is_in_transition |-> t.o.g.tb.is_in_transition,
     prev_date |-> date,
     prev_row_state |-> row.State,
     prev_row_gb |-> row.Gold_Bear,
     prev_row_vr |-> row.Value_Regime,
     prev_row_date |-> st.i + 1]

SettleWith(st, date, row, current_rets, t, daily_ret) ==
    Book(st, date, row, current_rets, t, daily_ret,
         (st.current_val * (ONE + daily_ret)) \div ONE)

Settle(st, data, t) ==
    SettleWith(st, DateAt(data.first_date, st.i + 1), data.df_states[st.i + 1],
               data.returns_df[st.i + 1], t,
               WeightedReturn(t.o.final_weights, data.returns_df[st.i + 1]) - t.trading_cost)

\* The body of the loop for the next date, given the decision inputs `lag`
\* chosen at its head
SimulateWith(st, data, cfg, lag) ==
    Settle(st, data,
           Trade(Overlay(Gate(Decide(ConfirmSignal(st, lag.raw_state), data, cfg, lag),
                              DateAt(data.first_date, st.i + 1), cfg.use_proxies),
                         st),
                 st, cfg))

\* One iteration of `for date, row in df_states.iterrows()`
SimulateDate(st, data, cfg) ==
    SimulateWith(st, data, cfg, LagDecision(st, data, st.i + 1))

\* ========================================================================
\* State
\* ========================================================================
VARIABLES
    args,       \* get_target_percentages: the arguments several passes read
    targets,    \* get_target_percentages: the local weight map
    pc,         \* get_target_percentages: the next statement of the cascade
    raised,     \* get_target_percentages: the exception raised, "" when none
    cfg,        \* run_dynamic_backtest: use_proxies, rebal_freq, transaction_cost_bps
    data,       \* run_dynamic_backtest: df_states, the score table and returns_df
    sim,        \* run_dynamic_backtest: the locals of the loop
    data2,      \* a second run of run_dynamic_backtest: its tables
    sim2,       \* a second run of run_dynamic_backtest: its locals
    cfg2,       \* a second run of run_dynamic_backtest: its parameters
    call_row,     \* determine_macro_state: the row argument
    call_params,  \* determine_macro_state: the params argument
    call_result,  \* determine_macro_state: what the call returned or raised
    running,    \* a session of backtests: the request whose call is executing, 0 when none
    results,    \* a session of backtests: what each finished call returned
    call_series,  \* calculate_equity_curve_metrics: the series argument
    call_metrics, \* calculate_equity_curve_metrics: what the call returned or raised
    lock_file,  \* acquire_daily_lock: the timestamp in the date's lock file, None when absent
    clock,      \* acquire_daily_lock: time.time()
    callers     \* acquire_daily_lock: each caller's position, now_ts and return value

allocVars == <<args, targets, pc, raised>>
simVars == <<cfg, data, sim, data2, sim2, cfg2>>
classVars == <<call_row, call_params, call_result>>
runVars == <<running, results>>
metricVars == <<call_series, call_metrics>>
lockVars == <<lock_file, clock, callers>>
restVars == <<runVars, metricVars, lockVars>>
vars == <<args, targets, pc, raised, cfg, data, sim, data2, sim2, cfg2, call_row, call_params, call_result,
          running, results, call_series, call_metrics, lock_file, clock, callers>>

\* No call of determine_macro_state is being followed
\* No session of backtests
IdleRuns ==
    /\ running = 0
    /\ results = <<>>

\* No call of calculate_equity_curve_metrics
IdleMetrics ==
    /\ call_series = <<>>
    /\ call_metrics = <<>>

\* No call of acquire_daily_lock
IdleLock ==
    /\ lock_file = <<>>
    /\ clock = 0
    /\ callers = <<>>

IdleRest == IdleRuns /\ IdleMetrics /\ IdleLock

IdleClassifier ==
    /\ call_row = <<>>
    /\ call_params = <<>>
    /\ call_result = <<>>

\* ------------------------------------------------------------------------
\* One call of get_target_percentages, statement by statement
\* ------------------------------------------------------------------------
\* Input grids.  Values sit strictly between the thresholds the passes test.
RegimeArgs == Regimes \cup {"RISK_ON"}     \* "RISK_ON" is not a regime name
VixGrid == {None, 1200, 1600, 2100, 2600, 3300, 4500}
YieldCurveGrid == {None, -50, 10}
SahmGrid == {None, 20, 41}
CorrGrid == {None, 10, 26, 40}
VixPeakGrid == {None, 3600}
BreadthGrid == {None, 20, 40, 60}
BearSets == {{}, {"GSD.SI", "MBH.SI"}, {"IWY", "LVHI", "G3B.SI"},
             Assets \ {"WTMF"}}
TrendGrid == {[a \in Assets |-> a \in B] : B \in BearSets}
Scores(iwy, lvhi) == [t \in {"IWY", "LVHI"} |-> IF t = "IWY" THEN iwy ELSE lvhi]
MomentumGrid == {<<>>, Scores(-12, -5), Scores(0, 4),
                 Scores(5, -2), Scores(12, 12), [t \in {"LVHI"} |-> 3]}
DualMaGrid == {<<>>,
               << <<"IWY", "STRONG_BEAR">>, <<"WTMF", "WEAK_BEAR">>,
                  <<"LVHI", "WEAK_BEAR">>, <<"GSD.SI", "BULLISH">>,
                  <<"SPY", "STRONG_BEAR">> >>}

AllocInit ==
    /\ args \in [s : RegimeArgs, gold_bear : BOOLEAN, value_regime : BOOLEAN,
                 asset_trends : TrendGrid, vix : VixGrid,
                 yield_curve : YieldCurveGrid, momentum_scores : MomentumGrid]
    /\ targets = NoTargets
    /\ pc = 1
    /\ raised = ""
    /\ cfg = <<>> /\ data = <<>> /\ sim = <<>>
    /\ data2 = <<>> /\ sim2 = <<>> /\ cfg2 = <<>>
    /\ IdleClassifier
    /\ IdleRest

BaseAllocation ==
    /\ pc = 1
    /\ targets' = base_allocation(args.s, args.value_regime, args.vix)
    /\ pc' = 2
    /\ UNCHANGED <<args, raised, simVars, classVars, restVars>>

VixAdjustments ==
    /\ pc = 2
    /\ targets' = apply_vix_adjustments(targets, args.s, args.vix)
    /\ pc' = 3
    /\ UNCHANGED <<args, raised, simVars, classVars, restVars>>

YieldCurveGuard ==
    /\ pc = 3
    /\ targets' = apply_yield_curve_guard(targets, args.s, args.yield_curve)
    /\ pc' = 4
    /\ UNCHANGED <<args, raised, simVars, classVars, restVars>>

TrendFilter ==
    /\ pc = 4
    /\ \E dual_ma_signals \in DualMaGrid :
          targets' = IF dual_ma_signals # <<>>
                     THEN apply_dual_ma_trend_filter(targets, args.s, dual_ma_signals)
                     ELSE apply_trend_filters(targets, args.s, args.asset_trends)
    /\ pc' = 5
    /\ UNCHANGED <<args, raised, simVars, classVars, restVars>>

IwySafetyValve ==
    /\ pc = 5
    /\ targets' = apply_iwy_safety_valve(targets, args.s, args.asset_trends, args.vix)
    /\ pc' = 6
    /\ UNCHANGED <<args, raised, simVars, classVars, restVars>>

GoldFilter ==
    /\ pc = 6
    /\ targets' = apply_gold_filter(targets, args.gold_bear)
    /\ pc' = 7
    /\ UNCHANGED <<args, raised, simVars, classVars, restVars>>

MomentumIntensity ==
    /\ pc = 7
    /\ targets' = apply_momentum_intensity(targets, args.s, args.momentum_scores)
    /\ pc' = 8
    /\ UNCHANGED <<args, raised, simVars, classVars, restVars>>

SahmEarlyWarning ==
    /\ pc = 8
    /\ \E sahm \in SahmGrid :
          targets' = apply_sahm_early_warning(targets, args.s, sahm)
    /\ pc' = 9
    /\ UNCHANGED <<args, raised, simVars, classVars, restVars>>

YieldCurveUninvertProtection ==
    /\ pc = 9
    /\ \E yc_recently_inverted \in BOOLEAN :
          targets' = apply_yield_curve_uninvert_protection(
                         targets, args.s, args.yield_curve, yc_recently_inverted)
    /\ pc' = 10
    /\ UNCHANGED <<args, raised, simVars, classVars, restVars>>

CorrelationAdjustment ==
    /\ pc = 10
    /\ \E corr \in CorrGrid :
          targets' = apply_correlation_adjustment(targets, args.s, corr)
    /\ pc' = 11
    /\ UNCHANGED <<args, raised, simVars, classVars, restVars>>

VixMeanReversion ==
    /\ pc = 11
    /\ \E vix_recent_peak \in VixPeakGrid :
          targets' = apply_vix_mean_reversion(targets, args.s, args.vix, vix_recent_peak)
    /\ pc' = 12
    /\ UNCHANGED <<args, raised, simVars, classVars, restVars>>

MarketBreadthAdjustment ==
    /\ pc = 12
    /\ \E breadth_score \in BreadthGrid :
          targets' = apply_market_breadth_adjustment(targets, args.s, breadth_score)
    /\ pc' = 13
    /\ UNCHANGED <<args, raised, simVars, classVars, restVars>>

TrendBoost ==
    /\ pc = 13
    /\ targets' = apply_trend_boost(targets, args.s, args.momentum_scores, args.vix)
    /\ pc' = 14
    /\ UNCHANGED <<args, raised, simVars, classVars, restVars>>

ValueRotation ==
    /\ pc = 14
    /\ targets' = apply_value_rotation(targets, args.s, args.momentum_scores)
    /\ pc' = 15
    /\ UNCHANGED <<args, raised, simVars, classVars, restVars>>

Return ==
    /\ pc = 15
    /\ pc' = 16
    /\ UNCHANGED <<args, targets, raised, simVars, classVars, restVars>>

AllocNext ==
    \/ BaseAllocation
    \/ VixAdjustments
    \/ YieldCurveGuard
    \/ TrendFilter
    \/ IwySafetyValve
    \/ GoldFilter
    \/ MomentumIntensity
    \/ SahmEarlyWarning
    \/ YieldCurveUninvertProtection
    \/ CorrelationAdjustment
    \/ VixMeanReversion
    \/ MarketBreadthAdjustment
    \/ TrendBoost
    \/ ValueRotation
    \/ Return

\* the call has returned
Returned == pc = 16

SpecAlloc == AllocInit /\ [][AllocNext]_vars

\* ------------------------------------------------------------------------
\* Runs of the backtest simulator, date by date
\* ------------------------------------------------------------------------
MaxDays == 5                     \* dates simulated; the program needs 10 or more
                                 \* and runs the same loop on each
INITIAL_CAPITAL == 10000

Equities == {"IWY", "G3B.SI", "LVHI", "SRT.SI", "AJBU.SI", "SPY", "^GSPC", "^NDX"}
Bonds == {"MBH.SI", "TLT", "VUSTX"}
Golds == {"GSD.SI", "GLD", "GC=F"}

\* One value per ticker: growth (IWY, ^NDX), other equities, bonds, gold, WTMF
PerTicker(growth, equity, bond, gold, futures) ==
    [t \in Tickers |->
        IF t \in {"IWY", "^NDX"} THEN growth
        ELSE IF t \in Equities THEN equity
        ELSE IF t \in Bonds THEN bond
        ELSE IF t \in Golds THEN gold
        ELSE futures]

Features(sahm, rate_shock, corr, vix, trend_bear, yield_curve, gold_bear, value_regime) ==
    [Sahm |-> sahm, RateShock |-> rate_shock, Corr |-> corr, VIX |-> vix,
     Trend_Bear |-> trend_bear, YieldCurve |-> yield_curve, Gold_Bear |-> gold_bear,
     Value_Regime |-> value_regime]

Day(features, momentum, returns) ==
    [features |-> features, momentum |-> momentum, returns |-> returns]

\* Days of one regime each, with their own signals and returns
Calm == Day(Features(20, 0, 10, 1600, FALSE, 10, FALSE, FALSE),
            PerTicker(5, 4, 1, 2, 0), PerTicker(100, 80, 10, 20, 0))
Value == Day(Features(41, 0, 26, 1900, FALSE, -50, TRUE, TRUE),
             PerTicker(-5, 3, -2, -3, 1), PerTicker(-150, -50, 30, -40, 10))
Panic == Day(Features(20, 0, 10, 3300, FALSE, 10, FALSE, FALSE),
             PerTicker(-12, -10, 4, 6, 2), PerTicker(-400, -300, 100, 150, 50))
Recession == Day(Features(60, 0, 10, 2600, TRUE, -50, TRUE, FALSE),
                 PerTicker(-8, -6, 5, 3, 1), PerTicker(-200, -150, 90, 70, 20))
RegimeDays == {Calm, Value, Panic, Recession}

\* Calm days with a market-wide move
Move(r) == Day(Calm.features, Calm.momentum, PerTicker(r, r, r, r, r))
DrawdownDays == {Move(0), Move(-2000), Move(5000), Move(-400)}

PairDays == {Calm, Panic}

\* The position of each column's first price in the downloaded frame, None
\* for a column the download left empty.  Here IWY and WTMF start at `first`.
FirstValid(first) == [t \in Tickers |-> IF t \in {"IWY", "WTMF"} THEN first ELSE 1]
AllListed == FirstValid(1)
FirstValidGrid == {AllListed, FirstValid(3), FirstValid(None)}

\* The tables run_dynamic_backtest works on, for a sequence of days.
\*   raw         the downloaded days and first_valid, as given
\*   df_states   the feature rows with their State column
\*   momentum    (price - ma) / ma after price_data.ffill().bfill(): the
\*               dates before a column's first price hold that first price,
\*               so the score is 0; an empty column stays NaN and has none
\*   returns_df  pct_change().fillna(0): 0 on the first date, up to the
\*               column's first price, and for an empty column
Tables(first_date, days, first_valid) ==
    [first_date |-> first_date,
     raw |-> [days |-> days, first_valid |-> first_valid],
     df_states |-> [k \in DOMAIN days |-> WithState(days[k].features)],
     momentum |-> [k \in DOMAIN days |->
                    [t \in Tickers |->
                        IF first_valid[t] = None THEN None
                        ELSE IF k < first_valid[t] THEN 0
                        ELSE days[k].momentum[t]]],
     returns_df |-> [k \in DOMAIN days |->
                      [t \in Tickers |->
                          IF k = 1 \/ first_valid[t] = None \/ k <= first_valid[t] THEN 0
                          ELSE days[k].returns[t]]]]

\* The downloaded cell of column t on the k-th date: NaN before the first price
RawCell(data_, k, t) ==
    IF data_.raw.first_valid[t] = None \/ k < data_.raw.first_valid[t] THEN <<None, None>>
    ELSE <<data_.raw.days[k].momentum[t], data_.raw.days[k].returns[t]>>

\* Two histories are identical up to and including the m-th date
SameHistoryUpTo(a, b, m) ==
    \A k \in 1..m :
        /\ a.raw.days[k].features = b.raw.days[k].features
        /\ \A t \in Tickers : RawCell(a, k, t) = RawCell(b, k, t)

IdleAlloc ==
    /\ args = <<>>
    /\ targets = NoTargets
    /\ pc = 0
    /\ raised = ""

Init ==
    /\ IdleAlloc
    /\ IdleClassifier
    /\ IdleRest
    /\ cfg \in [use_proxies : BOOLEAN, rebal_freq : {"Daily", "Weekly"},
                transaction_cost_bps : {10}]
    /\ \E days \in [1..MaxDays -> RegimeDays] : data = Tables(0, days, AllListed)
    /\ sim = InitialLoopState(INITIAL_CAPITAL)
    /\ data2 = <<>>
    /\ sim2 = <<>>
    /\ cfg2 = <<>>

DrawdownInit ==
    /\ IdleAlloc
    /\ IdleClassifier
    /\ IdleRest
    /\ cfg \in [use_proxies : BOOLEAN, rebal_freq : {"Daily"},
                transaction_cost_bps : {0, 10}]
    /\ \E days \in [1..MaxDays -> DrawdownDays] : data = Tables(0, days, AllListed)
    /\ sim = InitialLoopState(INITIAL_CAPITAL)
    /\ data2 = <<>>
    /\ sim2 = <<>>
    /\ cfg2 = <<>>

\* Two runs on downloads that are identical up to and including the D-th date
PairInit ==
    /\ IdleAlloc
    /\ IdleClassifier
    /\ IdleRest
    /\ cfg \in [use_proxies : {FALSE}, rebal_freq : {"Daily"},
                transaction_cost_bps : {10}]
    /\ \E days \in [1..MaxDays -> PairDays], D \in 1..(MaxDays - 1), later \in RegimeDays,
          fv \in FirstValidGrid, fv2 \in FirstValidGrid :
          /\ data = Tables(0, days, fv)
          /\ data2 = Tables(0, [k \in 1..MaxDays |-> IF k <= D THEN days[k] ELSE later], fv2)
          /\ SameHistoryUpTo(data, data2, D)
    /\ sim = InitialLoopState(INITIAL_CAPITAL)
    /\ sim2 = InitialLoopState(INITIAL_CAPITAL)
    /\ cfg2 = cfg

\* The loop body runs for the next date
Step ==
    /\ sim.i < MaxDays
    /\ sim' = SimulateDate(sim, data, cfg)
    /\ UNCHANGED <<cfg, data, data2, sim2, cfg2, allocVars, classVars, restVars>>

\* The loop bodies of both runs run for the next date
PairStep ==
    /\ sim.i < MaxDays
    /\ sim' = SimulateDate(sim, data, cfg)
    /\ sim2' = SimulateDate(sim2, data2, cfg2)
    /\ UNCHANGED <<cfg, data, data2, cfg2, allocVars, classVars, restVars>>

Next == Step
PairNext == PairStep

Spec == Init /\ [][Next]_vars
SpecDrawdown == DrawdownInit /\ [][Next]_vars
SpecPair == PairInit /\ [][PairNext]_vars

\* Two runs on the same download that differ in transaction_cost_bps only
CostDays == {Move(0), Move(-1195), Move(-2000)}
CostGrid == {0, 10, 50}

CostInit ==
    /\ IdleAlloc
    /\ IdleClassifier
    /\ IdleRest
    /\ cfg \in [use_proxies : {FALSE}, rebal_freq : {"Daily"},
                transaction_cost_bps : CostGrid]
    /\ \E higher \in CostGrid :
          /\ higher > cfg.transaction_cost_bps
          /\ cfg2 = [cfg EXCEPT !.transaction_cost_bps = higher]
    /\ \E days \in [1..MaxDays -> CostDays] : data = Tables(0, days, AllListed)
    /\ data2 = data
    /\ sim = InitialLoopState(INITIAL_CAPITAL)
    /\ sim2 = InitialLoopState(INITIAL_CAPITAL)

SpecCost == CostInit /\ [][PairNext]_vars


\* ---- A run long enough for volatility targeting ----
VolDays == 23

\* Market-wide moves: flat, quiet, and swings of 3% either way
VolMoves == {Move(0), Move(30), Move(300), Move(-300)}

\* The days repeat a pattern of three moves
VolInit ==
    /\ IdleAlloc
    /\ IdleClassifier
    /\ IdleRest
    /\ cfg \in [use_proxies : {FALSE}, rebal_freq : {"Daily"},
                transaction_cost_bps : {0, 10}]
    /\ \E a \in VolMoves, b \in VolMoves, c \in VolMoves :
          data = Tables(0, [k \in 1..VolDays |->
                               IF k % 3 = 1 THEN a ELSE IF k % 3 = 2 THEN b ELSE c],
                        AllListed)
    /\ sim = InitialLoopState(INITIAL_CAPITAL)
    /\ data2 = <<>>
    /\ sim2 = <<>>
    /\ cfg2 = <<>>

\* The loop body runs for the next date of the long run
VolStep ==
    /\ sim.i < VolDays
    /\ sim' = SimulateDate(sim, data, cfg)
    /\ UNCHANGED <<cfg, data, data2, sim2, cfg2, allocVars, classVars, restVars>>

VolNext == VolStep
SpecVol == VolInit /\ [][VolNext]_vars

\* ---- Runs with flat days around a fall, on either cadence ----
FlatDays == {Move(0), Move(-2000), Move(5000)}

FlatInit ==
    /\ IdleAlloc
    /\ IdleClassifier
    /\ IdleRest
    /\ cfg \in [use_proxies : {FALSE}, rebal_freq : {"Daily", "Weekly"},
                transaction_cost_bps : {0}]
    /\ \E days \in [1..MaxDays -> FlatDays] : data = Tables(0, days, AllListed)
    /\ sim = InitialLoopState(INITIAL_CAPITAL)
    /\ data2 = <<>>
    /\ sim2 = <<>>
    /\ cfg2 = <<>>

SpecFlat == FlatInit /\ [][Next]_vars

\* ---- A session of two backtests, one call at a time ----
\* Request 1 is (data, cfg), request 2 is (data2, cfg2)
Requests == {1, 2}
RequestData(r) == IF r = 1 THEN data ELSE data2
RequestCfg(r) == IF r = 1 THEN cfg ELSE cfg2

SessionDays == {Calm, Panic, Move(-2000)}
SessionOther == [k \in 1..MaxDays |-> IF k = 3 THEN Panic ELSE Calm]

SessionInit ==
    /\ IdleAlloc
    /\ IdleClassifier
    /\ IdleRest
    /\ cfg \in [use_proxies : {FALSE}, rebal_freq : {"Daily"}, transaction_cost_bps : {10}]
    /\ cfg2 \in [use_proxies : {FALSE}, rebal_freq : {"Daily"}, transaction_cost_bps : {0, 10}]
    /\ \E days \in [1..MaxDays -> SessionDays] :
          /\ data = Tables(0, days, AllListed)
          /\ data2 \in {data, Tables(0, SessionOther, AllListed)}
    /\ sim = <<>>
    /\ sim2 = <<>>

\* run_dynamic_backtest is called for request r and reaches its loop
CallBacktest(r) ==
    /\ running = 0
    /\ r \notin DOMAIN results
    /\ running' = r
    /\ sim' = EntryState(sim, INITIAL_CAPITAL)
    /\ UNCHANGED <<results, cfg, data, data2, sim2, cfg2, allocVars, classVars, metricVars, lockVars>>

\* The loop body of the executing call runs for the next date
SessionStep ==
    /\ running # 0
    /\ sim.i < MaxDays
    /\ sim' = SimulateDate(sim, RequestData(running), RequestCfg(running))
    /\ UNCHANGED <<running, results, cfg, data, data2, sim2, cfg2, allocVars, classVars, metricVars, lockVars>>

\* The executing call returns its curve and history
ReturnBacktest ==
    /\ running # 0
    /\ sim.i = MaxDays
    /\ results' = (running :> [portfolio_values |-> sim.portfolio_values,
                               history_records |-> sim.history_records]) @@ results
    /\ running' = 0
    /\ UNCHANGED <<sim, cfg, data, data2, sim2, cfg2, allocVars, classVars, metricVars, lockVars>>

SessionNext ==
    \/ \E r \in Requests : CallBacktest(r)
    \/ SessionStep
    \/ ReturnBacktest

SpecSession == SessionInit /\ [][SessionNext]_vars

\* ------------------------------------------------------------------------
\* Calls of determine_macro_state
\* ------------------------------------------------------------------------
\* The keys determine_macro_state reads from its row
RequiredFields == {"Sahm", "RateShock", "Corr", "VIX", "Trend_Bear"}

\* params as the backtest page builds them from its number inputs: here a
\* lower Sahm threshold and a recession VIX below the panic VIX
CustomParams ==
    [sahm_threshold |-> 40, rate_shock_threshold |-> 20, corr_threshold |-> 30,
     vix_panic |-> 3000, vix_recession |-> 2500, vix_elevated |-> 2000]
ParamsGrid == {DefaultParams, CustomParams}

\* Values on both sides of every threshold; None is NaN, a field with no value
SahmValues == {None, 20, 45, 60}
RateShockValues == {None, 0, 25}
CorrValues == {None, 10, 40}
VixValues == {None, 1600, 2200, 2800, 3300, 3600}
FullRows ==
    [Sahm : SahmValues, RateShock : RateShockValues, Corr : CorrValues,
     VIX : VixValues, Trend_Bear : BOOLEAN]

\* the row without the key f
WithoutKey(r, f) == [k \in DOMAIN r \ {f} |-> r[k]]
RowGrid == FullRows \cup {WithoutKey(r, f) : r \in FullRows, f \in RequiredFields}

\* every required key is present and holds a value
WellFormed(r) ==
    /\ RequiredFields \subseteq DOMAIN r
    /\ \A f \in RequiredFields \ {"Trend_Bear"} : r[f] # None

\* What a call returns or raises.  row['Sahm'] on a row without the key raises
\* KeyError before any rule is tested; a NaN compares False with every
\* threshold, which None, lying below every threshold, does under > and >=.
DetermineMacroStateCall(r, p) ==
    IF ~(RequiredFields \subseteq DOMAIN r) THEN [state |-> "None", raised |-> "KeyError"]
    ELSE [state |-> determine_macro_state(r, p), raised |-> ""]

ClassifierInit ==
    /\ IdleAlloc
    /\ cfg = <<>> /\ data = <<>> /\ sim = <<>>
    /\ data2 = <<>> /\ sim2 = <<>> /\ cfg2 = <<>>
    /\ call_row \in RowGrid
    /\ call_params \in ParamsGrid
    /\ call_result = <<>>
    /\ IdleRest

DetermineMacroState ==
    /\ call_params # <<>>
    /\ call_result = <<>>
    /\ call_result' = DetermineMacroStateCall(call_row, call_params)
    /\ UNCHANGED <<call_row, call_params, allocVars, simVars, restVars>>

ClassifyNext == DetermineMacroState

SpecClassify == ClassifierInit /\ [][ClassifyNext]_vars

Classified == call_result # <<>>

\* ------------------------------------------------------------------------
\* Calls of calculate_equity_curve_metrics
\* ------------------------------------------------------------------------
\* A series is a sequence of [date, value], dates ascending.  The model keeps
\* the keys of the result that depend on the values and dates alone.
MaxSeries == 4
SeriesValues == {90, 100, 110}
SeriesStarts == {0, 3}           \* a Monday, a Thursday

SeriesOf(first_date, values) ==
    [k \in 1..Len(values) |-> [date |-> DateAt(first_date, k), value |-> values[k]]]

SeriesGrid ==
    {SeriesOf(f, v) : f \in SeriesStarts,
                      v \in UNION {[1..n -> SeriesValues] : n \in 0..MaxSeries}}

\* series.cummax() at position k
RollingMax(series, k) == SetMax({series[j].value : j \in 1..k})

\* peak_dates at position k: the date of the last position up to k where the
\* series equals its running maximum
PeakDate(series, k) ==
    series[SetMax({j \in 1..k : series[j].value = RollingMax(series, j)})].date

\* max_dd_days: the longest distance in days of a date to its last peak
MaxDdDays(series) ==
    SetMax({series[k].date - PeakDate(series, k) : k \in 1..Len(series)})

\* max_dd in basis points
MaxDrawdown(series) ==
    SetMin({(series[k].value * ONE) \div RollingMax(series, k) - ONE : k \in 1..Len(series)})

calculate_equity_curve_metrics(series) ==
    IF Len(series) < 2 THEN [raised |-> "", result |-> <<>>]
    ELSE [raised |-> "",
          result |->
              [TotalReturn |-> (series[Len(series)].value * ONE) \div series[1].value - ONE,
               MaxDrawdown |-> MaxDrawdown(series),
               MaxDDDays |-> MaxDdDays(series)]]

MetricsInit ==
    /\ IdleAlloc
    /\ IdleClassifier
    /\ IdleRuns
    /\ IdleLock
    /\ cfg = <<>> /\ data = <<>> /\ sim = <<>>
    /\ data2 = <<>> /\ sim2 = <<>> /\ cfg2 = <<>>
    /\ call_series \in SeriesGrid
    /\ call_metrics = <<>>

\* One call of calculate_equity_curve_metrics
CalculateMetrics ==
    /\ call_metrics = <<>>
    /\ call_metrics' = calculate_equity_curve_metrics(call_series)
    /\ UNCHANGED <<call_series, allocVars, simVars, classVars, runVars, lockVars>>

MetricsNext == CalculateMetrics
SpecMetrics == MetricsInit /\ [][MetricsNext]_vars

\* ------------------------------------------------------------------------
\* Calls of acquire_daily_lock for one date string
\* ------------------------------------------------------------------------
\* Times are minutes.  Each caller is a scheduler thread of some process.
Callers == {1, 2, 3}
DAILY_TTL_MINUTES == 1440
TickMinutes == 720
MaxClock == 2160

NoCall == [pc |-> "idle", now_ts |-> None, returned |-> "None"]

LockInit ==
    /\ IdleAlloc
    /\ IdleClassifier
    /\ IdleRuns
    /\ IdleMetrics
    /\ cfg = <<>> /\ data = <<>> /\ sim = <<>>
    /\ data2 = <<>> /\ sim2 = <<>> /\ cfg2 = <<>>
    /\ lock_file = None
    /\ clock = 0
    /\ callers = [p \in Callers |-> NoCall]

\* now_ts = time.time()
EnterAcquire(p) ==
    /\ callers[p].pc = "idle"
    /\ callers' = [callers EXCEPT ![p] = [pc |-> "check", now_ts |-> clock, returned |-> "None"]]
    /\ UNCHANGED <<lock_file, clock, allocVars, simVars, classVars, runVars, metricVars>>

\* os.path.exists(lock_path) and the read of the timestamp
CheckLock(p) ==
    /\ callers[p].pc = "check"
    /\ callers' = [callers EXCEPT ![p] =
                      IF lock_file # None /\ @.now_ts - lock_file < DAILY_TTL_MINUTES
                      THEN [@ EXCEPT !.pc = "done", !.returned = "False"]
                      ELSE [@ EXCEPT !.pc = "write"]]
    /\ UNCHANGED <<lock_file, clock, allocVars, simVars, classVars, runVars, metricVars>>

\* f.write(str(now_ts)); return True
WriteLock(p) ==
    /\ callers[p].pc = "write"
    /\ lock_file' = callers[p].now_ts
    /\ callers' = [callers EXCEPT ![p] = [@ EXCEPT !.pc = "done", !.returned = "True"]]
    /\ UNCHANGED <<clock, allocVars, simVars, classVars, runVars, metricVars>>

\* Time passes
Tick ==
    /\ clock < MaxClock
    /\ clock' = clock + TickMinutes
    /\ UNCHANGED <<lock_file, callers, allocVars, simVars, classVars, runVars, metricVars>>

LockNext ==
    \/ \E p \in Callers : EnterAcquire(p) \/ CheckLock(p) \/ WriteLock(p)
    \/ Tick

SpecLock == LockInit /\ [][LockNext]_vars

\* ========================================================================
\* Properties
\* ========================================================================
H == sim.history_records
H2 == sim2.history_records

\* C1.  No-lookahead: two runs whose downloaded price and feature histories
\* are identical up to and including a date show the same confirmed regime,
\* target weights, applied weights and NAV on every date up to it.
NoLookahead ==
    \A m \in 1..Len(H) :
        SameHistoryUpTo(data, data2, m) =>
            \A k \in 1..m :
                /\ H[k].State = H2[k].State
                /\ H[k].targets = H2[k].targets
                /\ H[k].final_weights = H2[k].final_weights
                /\ sim.portfolio_values[k] = sim2.portfolio_values[k]

\* The decision of the k-th date was made from the j-th row
UsesRow(k, j) ==
    LET row == data.df_states[j]
        equity == IF cfg.use_proxies THEN "^GSPC" ELSE "IWY"
    IN  /\ H[k].decision_date = j
        /\ H[k].RawState = row.State
        /\ H[k].gb = row.Gold_Bear
        /\ H[k].vr = row.Value_Regime
        /\ H[k].signals = [vix_val |-> row.VIX, yc_val |-> row.YieldCurve,
                           sahm_val |-> row.Sahm, corr_val |-> row.Corr]
        /\ H[k].daily_trends["IWY"] = trend_bear_all(data, j, equity)
        /\ H[k].momentum_scores["IWY"] = data.momentum[j][equity]

\* C2, as stated.  Lag: on every simulated date the raw regime, the flags and
\* the continuous signals of the decision are those of the previous date's
\* row, never those of the date itself.
LagOnEveryDate ==
    \A k \in 1..Len(H) : H[k].decision_date # k /\ (k > 1 => UsesRow(k, k - 1))

\* C2, amended.  Lag: on every simulated date after the first, the raw regime,
\* the flags and the continuous signals of the decision are those of the
\* previous date's row; the first date, which has no previous row, uses its own.
LagAfterFirstDate ==
    \A k \in 1..Len(H) : UsesRow(k, IF k = 1 THEN 1 ELSE k - 1)

LagWitness ==
    \E k \in 2..Len(H) :
        /\ data.df_states[k].State # data.df_states[k - 1].State
        /\ data.df_states[k].VIX # data.df_states[k - 1].VIX
        /\ H[k].RawState = data.df_states[k - 1].State
        /\ H[k].signals.vix_val = data.df_states[k - 1].VIX

\* the number of consecutive dates up to the k-th that observed its raw regime
RECURSIVE RunLength(_, _)
RunLength(h, k) ==
    IF k > 1 /\ h[k - 1].RawState = h[k].RawState THEN 1 + RunLength(h, k - 1) ELSE 1

RequiredDays(R) ==
    IF R = "EXTREME_ACCUMULATION" THEN EXTREME_CONFIRM_DAYS ELSE SIGNAL_CONFIRM_DAYS

\* C3.  Confirmation length: the confirmed regime switches to a new raw regime
\* R exactly on the date the count of consecutive lagged observations of R
\* reaches EXTREME_CONFIRM_DAYS for EXTREME_ACCUMULATION and
\* SIGNAL_CONFIRM_DAYS for every other regime.
ConfirmationLength ==
    \A k \in 2..Len(H) :
        H[k].RawState # H[k - 1].State =>
            (H[k].State = H[k].RawState <=> RunLength(H, k) >= RequiredDays(H[k].RawState))

\* the next date observes a regime other than the confirmed one, after a date
\* that observed the confirmed one and before a date that observes it again
SpikeDay ==
    /\ sim.i >= 1 /\ sim.i < MaxDays
    /\ sim.pending_state = "None"
    /\ LagDecision(sim, data, sim.i + 1).raw_state # sim.confirmed_state
    /\ data.df_states[sim.i + 1].State = sim.confirmed_state

\* the next date observes the confirmed regime again after a one-date spike
RevertDay ==
    /\ sim.i >= 1 /\ sim.i < MaxDays
    /\ sim.pending_state # "None" /\ sim.pending_state_days = 1
    /\ LagDecision(sim, data, sim.i + 1).raw_state = sim.confirmed_state

\* the next date as it would run had it observed the confirmed regime
Unspiked ==
    SimulateWith(sim, data, cfg,
                 [LagDecision(sim, data, sim.i + 1) EXCEPT !.raw_state = sim.confirmed_state])

SameOutcome(a, b) ==
    /\ a.confirmed_state = b.confirmed_state
    /\ a.is_in_transition = b.is_in_transition
    /\ a.transition_day = b.transition_day
    /\ a.transition_from_weights = b.transition_from_weights
    /\ a.history_records[a.i].targets = b.history_records[b.i].targets
    /\ a.history_records[a.i].final_weights = b.history_records[b.i].final_weights
    /\ a.current_val = b.current_val

StopLossExit ==
    \A k \in 1..Len(H) : H[k].Drawdown = 0 => ~H[k].InStopLoss

\* C6.  Staged stop-loss ratio: among the dates in stop-loss mode, a deeper
\* drawdown never gets a larger retained ratio than a shallower one.
StagedRatioMonotone ==
    \A j \in 1..Len(H), k \in 1..Len(H) :
        H[j].InStopLoss /\ H[k].InStopLoss /\ H[j].Drawdown < H[k].Drawdown
            => H[j].current_recovery_ratio <= H[k].current_recovery_ratio

\* C7.  Transitions always rebalance: on every date on which a transition
\* blend is applied, through the date where the blend reaches the new
\* weights, the simulator rebalances.
TransitionsAlwaysRebalance ==
    \A k \in 1..Len(H) : H[k].blended => H[k].Rebalanced

\* C8.  Allocation bound: for every regime, every weight returned by
\* get_target_percentages is >= 0 and the weights sum to at most 1.0.
AllocationBound ==
    Returned /\ args.s \in Regimes =>
        /\ \A a \in DOMAIN targets : targets[a] >= 0
        /\ SumValues(targets) <= ONE

\* C9.  Unknown regime: a call with a regime value that is not one of the six
\* regime names fails with InvalidRegimeError.
UnknownRegimeRaises ==
    Returned /\ args.s \notin Regimes => raised = "InvalidRegimeError"

\* C10.  Weight conservation: every pass of the cascade, and the call as a
\* whole, leaves the total of the weight map unchanged and its key set the
\* eight assets of the base map.  In fixed point a pass that splits an amount
\* in two rounds each share down, so a pass may drop one unit (0.01%) and the
\* passes of one call together no more than four.
WeightConservation ==
    /\ [][pc >= 2 =>
            /\ SumValues(targets) - SumValues(targets') \in 0..1
            /\ DOMAIN targets' = Assets]_vars
    /\ [](Returned =>
            /\ SumValues(base_allocation(args.s, args.value_regime, args.vix))
                   - SumValues(targets) \in 0..4
            /\ DOMAIN targets = Assets)

WeightConservationWitness ==
    /\ Returned
    /\ targets # base_allocation(args.s, args.value_regime, args.vix)
    /\ SumValues(targets) = SumValues(base_allocation(args.s, args.value_regime, args.vix))

\* C11.  Extreme-accumulation override: with regime EXTREME_ACCUMULATION, for
\* all values of the flags and signals, no pass takes the IWY weight below
\* its base-allocation value, and get_target_percentages returns an IWY
\* weight not below it.
ExtremeAccumulationOverride ==
    args # <<>> /\ args.s = "EXTREME_ACCUMULATION" /\ pc >= 2 =>
        targets["IWY"] >= base_allocation("EXTREME_ACCUMULATION", args.value_regime, args.vix)["IWY"]

ExtremeAccumulationWitness ==
    /\ Returned
    /\ args.s = "EXTREME_ACCUMULATION"
    /\ TrendGet(args.asset_trends, "IWY")
    /\ args.gold_bear
    /\ args.vix # None /\ args.vix > VIX_PANIC
    /\ ScoreGet(args.momentum_scores, "IWY") # None
    /\ ScoreGet(args.momentum_scores, "IWY") < 0
    /\ targets["IWY"] = 8500

\* C12.  Classifier totality and exclusivity: for every row with values for
\* Sahm, RateShock, Corr, VIX and Trend_Bear, determine_macro_state returns,
\* without raising, exactly one of the six regime names.
ClassifierTotal ==
    Classified /\ WellFormed(call_row) =>
        /\ call_result.raised = ""
        /\ Cardinality({R \in Regimes : R = call_result.state}) = 1

ClassifierTotalWitness ==
    /\ Classified
    /\ WellFormed(call_row)
    /\ call_row.VIX <= call_params.vix_elevated /\ ~call_row.Trend_Bear
    /\ call_result.state = "NEUTRAL"

\* the rules of the classifier in their order, as they hold of row r under p
RulesOf(r, p) ==
    << r.RateShock > p.rate_shock_threshold
           \/ (r.Sahm >= p.sahm_threshold /\ r.Corr > p.corr_threshold),
       r.Sahm >= p.sahm_threshold \/ (r.Trend_Bear /\ r.VIX > p.vix_recession),
       r.VIX > p.vix_panic,
       r.Trend_Bear,
       r.VIX > p.vix_elevated,
       TRUE >>

RuleNames ==
    <<"INFLATION_SHOCK", "DEFLATION_RECESSION", "EXTREME_ACCUMULATION",
      "CAUTIOUS_TREND", "CAUTIOUS_VOL", "NEUTRAL">>

FirstMatching(rules) ==
    CHOOSE i \in 1..Len(rules) : rules[i] /\ \A j \in 1..(i - 1) : ~rules[j]

\* C13.  Classifier priority: determine_macro_state returns the first matching
\* rule in the order inflation-shock, deflation-recession,
\* extreme-accumulation, cautious-trend, cautious-volatility, neutral; a
\* trend-down row with VIX above the elevated threshold and not above panic,
\* which no earlier rule matches, yields CAUTIOUS_TREND, and no trend-down
\* row yields CAUTIOUS_VOL.
ClassifierPriority ==
    Classified /\ WellFormed(call_row) =>
        LET rules == RulesOf(call_row, call_params)
        IN  /\ call_result.state = RuleNames[FirstMatching(rules)]
            /\ (/\ call_row.Trend_Bear
                /\ call_row.VIX > call_params.vix_elevated
                /\ ~(call_row.VIX > call_params.vix_panic)
                /\ ~rules[1] /\ ~rules[2])
                   => call_result.state = "CAUTIOUS_TREND"
            /\ call_row.Trend_Bear => call_result.state # "CAUTIOUS_VOL"

ClassifierPriorityWitness ==
    /\ Classified
    /\ WellFormed(call_row)
    /\ call_row.Trend_Bear
    /\ call_row.VIX > call_params.vix_elevated
    /\ ~(call_row.VIX > call_params.vix_panic)
    /\ call_result.state = "CAUTIOUS_TREND"

\* C14.  Missing feature: a row in which a required field is missing or has
\* no value is rejected with an error and never classified.
MissingFeatureRejected ==
    Classified /\ ~WellFormed(call_row) => call_result.raised # ""

\* half the sum over the assets and the cash leg of |applied - drifted|
HalfAbsoluteDifference(applied, drifted) ==
    LET all_assets == DOMAIN applied \cup DOMAIN drifted
        diffs == [t \in all_assets |-> Abs(Get(applied, t) - Get(drifted, t))]
        cash == Abs(Max(0, ONE - SumValues(applied)) - Max(0, ONE - SumValues(drifted)))
    IN  (SumValues(diffs) + cash) \div 2

\* the weights of the date before the k-th after that date's returns
DriftedInto(k) == DriftedWeights(H[k - 1].final_weights, data.returns_df[k - 1])

\* C15.  Turnover and cost: on every date after the first the recorded
\* turnover is half the sum over the assets and the cash leg of |applied
\* weight - drifted weight|, the trading cost is turnover *
\* transaction_cost_bps / 10000, and the turnover is positive whenever the
\* applied weights differ from the drifted ones.
TurnoverAndCost ==
    \A k \in 2..Len(H) :
        /\ H[k].Turnover = HalfAbsoluteDifference(H[k].final_weights, DriftedInto(k))
        /\ H[k].TradingCost = (H[k].Turnover * cfg.transaction_cost_bps) \div ONE
        /\ (\E t \in DOMAIN H[k].final_weights :
                Abs(H[k].final_weights[t] - Get(DriftedInto(k), t)) > 1)
               => H[k].Turnover > 0

\* C16.  Cost monotonicity: of two runs on the same price and feature history
\* with otherwise equal parameters, the one with the larger
\* transaction_cost_bps has the lower NAV, or the same NAV only if the
\* turnover is zero on every date.
CostMonotone ==
    (sim2 # <<>> /\ data2 = data /\ sim.i >= 1
        /\ cfg2.transaction_cost_bps > cfg.transaction_cost_bps) =>
        /\ sim2.current_val <= sim.current_val
        /\ sim2.current_val = sim.current_val =>
               \A k \in 1..Len(H) : H[k].Turnover = 0 /\ H2[k].Turnover = 0

\* the instrument that receives the weight of target asset t on the k-th date
InstrumentOf(t, k) ==
    map_target_to_asset(t, DateAt(data.first_date, H[k].Date), cfg.use_proxies)

\* C17.  Proxy consistency: when proxy substitution is active, the trend flag
\* and the momentum score of every target asset fed to the tilt passes are
\* those of the instrument that receives the asset's target weight.
ProxyConsistency ==
    \A k \in 1..Len(H) :
        cfg.use_proxies =>
            \A t \in Assets :
                InstrumentOf(t, k) \in Columns(cfg.use_proxies) =>
                    /\ t \in DOMAIN H[k].daily_trends =>
                           H[k].daily_trends[t]
                               = trend_bear_all(data, H[k].decision_date, InstrumentOf(t, k))
                    /\ t \in DOMAIN H[k].momentum_scores =>
                           H[k].momentum_scores[t]
                               = data.momentum[H[k].decision_date][InstrumentOf(t, k)]

\* some asset's drifted weight is further than REBALANCE_THRESHOLD from its
\* target weight on the k-th date
DriftExceedsBand(k) ==
    \E a \in DOMAIN H[k].new_target_weights \cup DOMAIN H[k].drifted_weights :
        Abs(Get(H[k].new_target_weights, a) - Get(H[k].drifted_weights, a))
            > REBALANCE_THRESHOLD

\* the cadence condition is due on the k-th date
CadenceDue(k) ==
    is_rebalance_day(DateAt(data.first_date, k), cfg.rebal_freq,
                     IF k = 1 THEN None ELSE DateAt(data.first_date, k - 1))

\* C18.  Rebalance gating: on every date after the first on which no
\* transition is in progress, the simulator rebalances to the target weights
\* if and only if the cadence condition is due and some asset's drifted
\* weight differs from its target weight by more than REBALANCE_THRESHOLD;
\* otherwise the weights carried into the overlays are the drifted weights.
RebalanceGating ==
    \A k \in 2..Len(H) :
        ~H[k].InTransition =>
            /\ H[k].Rebalanced <=> (CadenceDue(k) /\ DriftExceedsBand(k))
            /\ H[k].gated_weights = IF H[k].Rebalanced THEN H[k].new_target_weights
                                    ELSE H[k].drifted_weights
            /\ H[k].drifted_weights = DriftedInto(k)

RebalanceGatingWitness ==
    \E j \in 2..Len(H), k \in 2..Len(H) :
        /\ ~H[j].InTransition /\ CadenceDue(j) /\ ~DriftExceedsBand(j)
        /\ ~H[j].Rebalanced
        /\ H[j].new_target_weights # H[j].drifted_weights
        /\ ~H[k].InTransition /\ H[k].Rebalanced


\* ---- C19: transition blend ----
\* Dates on which a switch of the confirmed state takes effect.
SwitchAt(k) == k \in 2..Len(H) /\ H[k].State # H[k - 1].State

\* The window of a switch at date c: c and the following dates, up to
\* STATE_TRANSITION_DAYS of them, cut short by the next switch.
InWindowOf(c, k) ==
    /\ SwitchAt(c)
    /\ k \in c..(c + STATE_TRANSITION_DAYS - 1)
    /\ \A j \in (c + 1)..k : ~SwitchAt(j)

\* old * (1 - p) + new * p for p = n / STATE_TRANSITION_DAYS
BlendOf(old, new, n, a) ==
    (Get(old, a) * (STATE_TRANSITION_DAYS - n) + Get(new, a) * n) \div STATE_TRANSITION_DAYS

RawTargetMap(k) == MapTargets(H[k].targets, DateAt(data.first_date, k), cfg.use_proxies)

\* C19: on each date of the window after a confirmed switch the weight map
\* handed to the overlays is old*(1-p) + new*p per asset, with old the weights
\* applied on the date before the switch and p the elapsed fraction of the
\* window; outside every window the transition flag is clear and the target
\* map is the raw one.
TransitionBlendApplied ==
    \A k \in 2..Len(H) :
        /\ \A c \in 2..k :
               InWindowOf(c, k) =>
                   \A a \in DOMAIN H[k].gated_weights \cup DOMAIN H[c - 1].final_weights
                            \cup DOMAIN RawTargetMap(k) :
                       Abs(Get(H[k].gated_weights, a)
                           - BlendOf(H[c - 1].final_weights, RawTargetMap(k), k - c + 1, a)) <= 2
        /\ (\A c \in 2..k : ~InWindowOf(c, k)) =>
               /\ ~H[k].InTransition
               /\ ~H[k].blended
               /\ H[k].new_target_weights = RawTargetMap(k)


\* ---- C20: volatility targeting ----
\* The daily returns of the portfolio, one per simulated date
R == sim.portfolio_returns_history

\* The VOL_LOOKBACK returns that end two dates before date k, once there are
\* that many
ReturnsBefore(k) ==
    IF k - 2 >= VOL_LOOKBACK THEN SubSeq(R, k - 1 - VOL_LOOKBACK, k - 2) ELSE <<>>

Unscaled(k) == H[k].scaled_weights = H[k].gated_weights

\* C20: the weights of date t are scaled by the realized volatility of
\* VOL_LOOKBACK portfolio returns of dates strictly before t; every weight is
\* multiplied by a factor within [VOL_SCALAR_MIN, VOL_SCALAR_MAX]; with fewer
\* than VOL_LOOKBACK prior returns, or a realized volatility of zero, the
\* weights are left unscaled, and the run goes on to record the date.
VolatilityTargeting ==
    /\ Len(H) = sim.i
    /\ Len(R) = sim.i
    /\ \A k \in 1..Len(H) :
        /\ H[k].scaled_weights = VolTargetOn(H[k].gated_weights, ReturnsBefore(k))
        /\ \A a \in DOMAIN H[k].gated_weights :
               /\ H[k].scaled_weights[a] * ONE >= VOL_SCALAR_MIN * H[k].gated_weights[a] - 2 * ONE
               /\ H[k].scaled_weights[a] * ONE <= VOL_SCALAR_MAX * H[k].gated_weights[a] + 2 * ONE
        /\ k - 1 < VOL_LOOKBACK => Unscaled(k)
        /\ (ReturnsBefore(k) # <<>> /\ RealizedVol(ReturnsBefore(k)) = 0) => Unscaled(k)

\* A date whose realized volatility asks for a multiplier below
\* VOL_SCALAR_MIN, and whose weights were scaled
VolatilityTargetingWitness ==
    \E k \in 1..Len(H) :
        /\ ReturnsBefore(k) # <<>>
        /\ RealizedVol(ReturnsBefore(k)) > 0
        /\ (TARGET_VOL * ONE) \div RealizedVol(ReturnsBefore(k)) < VOL_SCALAR_MIN
        /\ ~Unscaled(k)


\* ---- C21: stop-loss exemptions ----
\* The columns that hold the hedge (WTMF) and the commodity (GSD.SI) weight
\* on date k
ExemptHoldings(k) ==
    {map_target_to_asset(t, DateAt(data.first_date, k), cfg.use_proxies) : t \in {"WTMF", "GSD.SI"}}

\* C21: in stop-loss mode the weights held for the hedge and the commodity
\* instrument pass the stop-loss scaling unchanged, also when they are held in
\* a proxy column, and every other weight is scaled by the recovery ratio.
StopLossExemptions ==
    \A k \in 1..Len(H) :
        H[k].InStopLoss =>
            \A a \in DOMAIN H[k].scaled_weights :
                H[k].final_weights[a] =
                    IF a \in ExemptHoldings(k) THEN H[k].scaled_weights[a]
                    ELSE (H[k].scaled_weights[a] * H[k].current_recovery_ratio) \div ONE


InsufficientDataRejected ==
    (call_metrics # <<>> /\ Len(call_series) < 2) =>
        call_metrics.raised = "InsufficientDataError"

\* ---- C26: max drawdown duration ----
\* The first position at which the series is at its maximum
FirstPeak(series) ==
    SetMin({k \in 1..Len(series) : series[k].value = RollingMax(series, Len(series))})

\* After its first peak the series stays below it, or stays flat at its level
NeverRecovers(series) ==
    LET p == FirstPeak(series)
    IN  \/ \A k \in (p + 1)..Len(series) : series[k].value < series[p].value
        \/ \A k \in (p + 1)..Len(series) : series[k].value = series[p].value

\* C26: for a series that never recovers after its first peak, flat series
\* included, 'Max DD Days' is the number of trading days from the first peak
\* to the final date.
MaxDrawdownDuration ==
    (call_metrics # <<>> /\ Len(call_series) >= 2 /\ NeverRecovers(call_series)) =>
        call_metrics.result.MaxDDDays = Len(call_series) - FirstPeak(call_series)


\* ---- C25: tilt-pass idempotence ----
\* C25: a tilt pass applied again, with the same signals, to the weight map it
\* has just produced leaves that map as it is.
TiltPassIdempotent ==
    raised = "" =>
        /\ pc = 3 => apply_vix_adjustments(targets, args.s, args.vix) = targets
        /\ pc = 4 => apply_yield_curve_guard(targets, args.s, args.yield_curve) = targets
        /\ pc = 6 => apply_iwy_safety_valve(targets, args.s, args.asset_trends, args.vix) = targets
        /\ pc = 7 => apply_gold_filter(targets, args.gold_bear) = targets
        /\ pc = 8 => apply_momentum_intensity(targets, args.s, args.momentum_scores) = targets

\* ---- C27: daily send lock ----
\* C27: of the calls of acquire_daily_lock for one date string, no two whose
\* times are less than the TTL apart both return True.
DailyLockExclusive ==
    \A p \in Callers, q \in Callers :
        (p # q /\ callers[p].returned = "True" /\ callers[q].returned = "True") =>
            Abs(callers[p].now_ts - callers[q].now_ts) >= DAILY_TTL_MINUTES



\* ---- C28: overlays do not compound ----
\* The assets held on date k had a return of zero on that date
ZeroReturns(k) == \A a \in DOMAIN H[k].final_weights : data.returns_df[k][a] = 0

\* C28: on a date without rebalancing that follows a date of zero asset
\* returns, with the same volatility multiplier (none here) and the same
\* stop-loss ratio on both dates, every applied weight is what it was the date
\* before: the ratio is not applied a second time.
OverlaysDoNotCompound ==
    \A k \in 2..Len(H) :
        ( /\ ~H[k].Rebalanced
          /\ ZeroReturns(k - 1)
          /\ H[k].InStopLoss /\ H[k - 1].InStopLoss
          /\ H[k].current_recovery_ratio = H[k - 1].current_recovery_ratio
          /\ H[k].scaled_weights = H[k].gated_weights
          /\ H[k - 1].scaled_weights = H[k - 1].gated_weights )
        => H[k].final_weights = H[k - 1].final_weights


\* ---- C29: the gold filter is final ----
\* C29: when gold_bear is true, the weight of GSD.SI in the map that
\* get_target_percentages returns is 0, whatever the regime and the other
\* signals.
GoldFilterFinal ==
    (Returned /\ raised = "" /\ args.gold_bear) => targets["GSD.SI"] = 0


\* ---- C30: peak invariant ----
\* C30: after every date peak_nav is at least the current value and at least
\* initial_capital, it is the highest of initial_capital and the values so far
\* (so it never decreases), and the drawdown computed at the start of every
\* date is at most 0.
PeakInvariant ==
    /\ sim.peak_nav >= sim.current_val
    /\ sim.peak_nav >= INITIAL_CAPITAL
    /\ sim.peak_nav = SetMax({INITIAL_CAPITAL} \cup {sim.portfolio_values[k] : k \in 1..Len(sim.portfolio_values)})
    /\ \A k \in 1..Len(H) : H[k].Drawdown <= 0

\* The value rose above initial_capital, then fell below its peak, and a
\* later date started in drawdown
PeakInvariantWitness ==
    /\ sim.peak_nav > INITIAL_CAPITAL
    /\ sim.current_val < sim.peak_nav
    /\ \E k \in 1..Len(H) : H[k].Drawdown < 0 /\ \E j \in 1..(k - 1) : sim.portfolio_values[j] > INITIAL_CAPITAL

====
